---- MODULE Spec2Model ----
(***************************************************************************)
(* A model of the ride lifecycle (RideService), the driver availability    *)
(* updates (DriverService) and the wallet ledger (Wallet model,            *)
(* PaymentService).                                                        *)
(*                                                                         *)
(* Every handler is an async function: between two awaited database        *)
(* operations other handlers run.  A handler is therefore one action per   *)
(* awaited database operation; an action holds the operation and all the   *)
(* synchronous code that follows it up to the next await.  The code before *)
(* the first await touches no shared state and is part of the first        *)
(* action.                                                                 *)
(*                                                                         *)
(* document.save() of a loaded document sends the paths the handler has    *)
(* changed, and only those ($set of the modified paths, $push of the       *)
(* pushed array elements), filtered by _id alone: assigning a path the     *)
(* value it already holds leaves it unmodified and sends nothing.          *)
(***************************************************************************)
EXTENDS Integers, Sequences, FiniteSets, TLC

\* ------------------------------------------------------------------ bounds
\* trips requested in a behaviour of the lifecycle specifications
MaxTrips == 1
\* trips requested in a behaviour of the dispatch specification
MaxDispatchTrips == 2
\* handler invocations in flight at the same time
MaxCalls == 2
\* transactions appended to the wallets in a behaviour of the wallet
\* specification
MaxTx == 5
MaxLimitDate == 15
MaxPayTx == 6
MaxSpendDate == 2

\* ------------------------------------------------------------------ users
Passengers == {"p1"}
Drivers == {"d1", "d2"}
Users == Passengers \cup Drivers
NoDriver == "none"

UserRole(u) == IF u \in Passengers THEN "passenger" ELSE "driver"

\* ------------------------------------------------------------------ enums
TripStatus == {"requested", "accepted", "driver_arrived", "in_progress",
               "completed", "cancelled"}
DriverAvailability == {"online", "offline", "busy"}
VehicleTypes == {"sedan", "luxury"}

\* vehicle.type of each driver profile; it is set at registration and no
\* handler of the model changes it.
VehicleOf(d) == IF d = "d1" THEN "sedan" ELSE "luxury"

Calls == 1..MaxCalls

VARIABLES
    trips,      \* the Trip collection: a sequence, _id = index
    drivers,    \* the Driver collection, keyed by the driver's user id
    calls,      \* the handler invocations in flight
    accepted,   \* the 'Ride accepted successfully' responses sent: <<trip, driver>>
    settlements, \* the payment.processRidePayment calls updateTripStatus has issued
    events,     \* the 'payment.completed' events emitted and not yet handled
    wallets,    \* the Wallet collection, keyed by the owner's user id
    now         \* the clock: the index in Dates of the current date

vars == <<trips, drivers, calls, accepted, settlements, events, wallets, now>>

TripIds == 1..Len(trips)

\* what save() sends for a path: the new value when the handler changed the
\* path, nothing (the stored value stays) when it assigned the loaded value
SavePath(stored, loaded, new) == IF new = loaded THEN stored ELSE new

\* ---------------------------------------------------------------- the fare
\* Money is counted in ten-thousandths of a dollar: the request schemas take
\* any number, so an amount may carry a fraction of a cent, and 85% of a fare
\* in cents is a whole number of these units.
Dollars(n) == n * 10000

\* distances are counted in hundredths of a kilometre, durations in
\* hundredths of a minute
Km(n) == n * 100
Minutes(n) == n * 100

BaseFare == Dollars(2) + 5000
PerMinuteRate == Dollars(1) \div 4

PerKmRate_Rebate(vehicleType) ==
    IF vehicleType = "luxury" THEN 0 - Dollars(2) ELSE 0 - Dollars(1)

\* perKmRate of RideService.calculateFare
PerKmRate(vehicleType) ==
    IF vehicleType = "luxury" THEN Dollars(2) ELSE Dollars(1) + 2000

\* taxRate 0.08 of an amount; the tax is counted in hundredths of the money
\* unit, in which it is a whole number
Tax(amount) == amount * 8

RoundFare_Down(total) == (total \div 10000) * 100

\* Math.round(totalFare * 100) / 100 of a total in hundredths of the money
\* unit: the nearest cent, a half going up
RoundFare(total) == ((total + 5000) \div 10000) * 100

\* Math.max(distance * 2, 5)
EstimatedDuration(distance) ==
    IF distance * 2 > Minutes(5) THEN distance * 2 ELSE Minutes(5)

\* the fare of a distance and a duration at a rate per kilometre, with a
\* surge multiplier, a discount and a tip
FareBreakdown(distance, duration, perKmRate, surgeMultiplier, discount, tip) ==
    LET distanceFare == (distance * perKmRate) \div 100
        timeFare == (duration * PerMinuteRate) \div 100
        subtotal == (BaseFare + distanceFare + timeFare) * surgeMultiplier
        tax == Tax(subtotal - discount)
        totalFare == (subtotal - discount + tip) * 100 + tax
    IN [baseFare |-> BaseFare, distanceFare |-> distanceFare, timeFare |-> timeFare,
        surgeMultiplier |-> surgeMultiplier, discount |-> discount, tax |-> tax,
        tip |-> tip, totalFare |-> RoundFare(totalFare)]

\* RideService.calculateFare(distance, duration, vehicleType)
CalculateFare(distance, duration, vehicleType) ==
    FareBreakdown(distance, duration, PerKmRate(vehicleType), 1, 0, 0)

\* TripSchema.methods.calculateFare: the rate of 1.20 per kilometre, and the
\* surge multiplier, discount and tip of the fareBreakdown the trip has
Trip_CalculateFare(estimatedDistance, estimatedDuration, fareBreakdown) ==
    FareBreakdown(estimatedDistance, estimatedDuration, Dollars(1) + 2000,
                  fareBreakdown.surgeMultiplier, fareBreakdown.discount,
                  fareBreakdown.tip)

\* the distance of the rides requested
RideDistance == Km(10)

\* ---------------------------------------------------------------- Trip model
ActiveStatuses == {"requested", "accepted", "driver_arrived", "in_progress"}
DriverActiveStatuses == {"accepted", "driver_arrived", "in_progress"}

\* new Trip({...}) of requestRide with the fare calculateFare(distance,
\* estimatedDuration) gave, as pre('save') stores it: a new trip gets
\* this.calculateFare() for its fareBreakdown
NewTrip(u) ==
    [passengerId |-> u, driverId |-> NoDriver, status |-> "requested",
     paymentStatus |-> "pending",
     estimatedDistance |-> RideDistance,
     estimatedDuration |-> EstimatedDuration(RideDistance),
     fareBreakdown |->
        Trip_CalculateFare(RideDistance, EstimatedDuration(RideDistance),
            CalculateFare(RideDistance, EstimatedDuration(RideDistance), "undefined")),
     acceptedAt |-> FALSE, driverArrivedAt |-> FALSE, startedAt |-> FALSE,
     completedAt |-> FALSE, cancelledAt |-> FALSE,
     cancellationReason |-> FALSE, cancelledBy |-> "none",
     passengerRating |-> 0, driverRating |-> 0]

\* TripSchema.methods.updateStatus: sets the status and the timestamp of the
\* new status; it validates nothing.
UpdateStatus(trip, newStatus) ==
    CASE newStatus = "accepted" ->
            [trip EXCEPT !.status = newStatus, !.acceptedAt = TRUE]
      [] newStatus = "driver_arrived" ->
            [trip EXCEPT !.status = newStatus, !.driverArrivedAt = TRUE]
      [] newStatus = "in_progress" ->
            [trip EXCEPT !.status = newStatus, !.startedAt = TRUE]
      [] newStatus = "completed" ->
            [trip EXCEPT !.status = newStatus, !.completedAt = TRUE,
                         !.paymentStatus = "processing"]
      [] newStatus = "cancelled" ->
            [trip EXCEPT !.status = newStatus, !.cancelledAt = TRUE]
      [] OTHER -> [trip EXCEPT !.status = newStatus]

\* TripSchema.methods.canBeCancelled
CancellableStatuses == {"requested", "accepted", "driver_arrived"}

\* a faulty canBeCancelled, which refuses only the terminal statuses: the
\* property of C8 tells it from the method of the code
CanBeCancelled_InProgress(status) == status \notin {"completed", "cancelled"}

CanBeCancelled(status) == status \in CancellableStatuses

\* DriverSchema.methods.isAvailableForRide
IsAvailableForRide(d) ==
    /\ drivers[d].driverStatus = "approved"
    /\ drivers[d].availability = "online"

\* ------------------------------------------------------- RideService helpers
\* validTransitions of updateTripStatus
ValidTransitions(s) ==
    CASE s = "requested" -> {"accepted", "cancelled"}
      [] s = "accepted" -> {"driver_arrived", "cancelled"}
      [] s = "driver_arrived" -> {"in_progress", "cancelled"}
      [] s = "in_progress" -> {"completed"}
      [] OTHER -> {}

\* a faulty driverOnlyStatuses, which leaves COMPLETED to the requester too:
\* the property of C9 tells it from the list of the code
DriverOnlyStatuses_NoCompleted == {"driver_arrived", "in_progress"}

\* driverOnlyStatuses of updateTripStatus
DriverOnlyStatuses == {"driver_arrived", "in_progress", "completed"}

\* UpdateTripStatusSchema: the statuses the request may name
UpdateTripStatusSchema == TripStatus \ {"requested"}

\* isPassenger / isDriver of updateTripStatus and cancelTrip, on the loaded
\* trip (driverId populated: the driver profile's userId)
IsPassenger(trip, u) == trip.passengerId = u
IsDriver(trip, u) == trip.driverId # NoDriver /\ trip.driverId = u

\* Trip.findOne({passengerId, status in active}) of requestRide
PassengerHasActiveTrip(u) ==
    \E t \in TripIds : trips[t].passengerId = u /\ trips[t].status \in ActiveStatuses

\* Trip.findOne({driverId, status in accepted..in_progress}) of acceptRide
DriverHasActiveTrip(d) ==
    \E t \in TripIds : trips[t].driverId = d /\ trips[t].status \in DriverActiveStatuses

\* the driver profiles in the order of their distance from the pickup point
\* of the model; the profiles beyond the two drivers who act exist in the
\* crowded city alone
DriverOrder ==
    <<"d1", "d2", "d3", "d4", "d5", "d6", "d7", "d8", "d9", "d10", "d11",
      "d12", "d13", "d14">>

\* currentLocation of a driver profile, as its distance in metres from the
\* pickup point: the profiles stand 380 m apart
DistanceOf(d) ==
    380 * (CHOOSE i \in 1..Len(DriverOrder) : DriverOrder[i] = d)

\* $maxDistance: 5000
MaxDistance == 5 * 1000

\* a faulty search, which returns every match: the property of C32 tells it
\* from the search of the code
Limit_None(found, n) == found

\* Query.limit(n) on the result of $near, which is sorted by distance: the n
\* nearest
Limit(found, n) ==
    {d \in found :
        Cardinality({e \in found : DistanceOf(e) < DistanceOf(d)}) < n}

\* Driver.find of findNearbyDrivers: approved, online, of the requested
\* vehicle type and within the radius; .limit(10)
FindNearbyDrivers(v) ==
    Limit({d \in DOMAIN drivers : /\ drivers[d].driverStatus = "approved"
                                  /\ drivers[d].availability = "online"
                                  /\ VehicleOf(d) = v
                                  /\ DistanceOf(d) <= MaxDistance},
          5 + 5)

\* -------------------------------------------------------------- Wallet model
\* default of dailyLimit and of monthlyLimit
DailyLimit == Dollars(500)
MonthlyLimit == Dollars(5000)

\* the amounts of the requests
Amounts == {Dollars(300), Dollars(15) + 40}

\* The calendar dates of a behaviour, in the order of time: what getDate,
\* getMonth and getFullYear give.  The second is a new day of the same month,
\* the third the same day of a later month, the fourth the same day and month
\* a year later; then come eleven days of one month.
Dates ==
    << [year |-> 1, month |-> 1, day |-> 30],
       [year |-> 1, month |-> 1, day |-> 31],
       [year |-> 1, month |-> 3, day |-> 31],
       [year |-> 2, month |-> 3, day |-> 31] >>
    \o [d \in 1..11 |-> [year |-> 2, month |-> 4, day |-> d]]

\* new Date()
Today == Dates[now]

\* new Wallet({userId, balance: 0, isActive: true}) of createWalletForUser,
\* with the defaults of the schema
NewWallet ==
    [exists |-> TRUE,
     balance |-> 0, isActive |-> TRUE, transactions |-> <<>>,
     dailySpent |-> 0, monthlySpent |-> 0, lastResetDate |-> Today]

\* Math.round(balance * 100) / 100 of a balance that is not negative
RoundCents(m) == ((m + 50) \div 100) * 100

\* WalletSchema.pre('save'): a negative balance becomes 0, the balance is
\* rounded to cents
PreSave(w) ==
    [w EXCEPT !.balance = RoundCents(IF w.balance < 0 THEN 0 ELSE w.balance)]

\* the transaction addTransaction builds: status is `status || PENDING`
Transaction(type, amount, status, category, referenceId) ==
    [type |-> type, amount |-> amount,
     status |-> IF status = "undefined" THEN "pending" ELSE status,
     category |-> category, referenceId |-> referenceId]

\* WalletSchema.methods.addTransaction up to its save(): the transaction is
\* pushed, and a COMPLETED one moves the balance and, for a debit, the spend
\* counters
AddTransaction(w, tx) ==
    LET pushed == [w EXCEPT !.transactions = Append(@, tx)]
    IN IF tx.status # "completed" THEN pushed
       ELSE IF tx.type = "credit" THEN [pushed EXCEPT !.balance = @ + tx.amount]
       ELSE [pushed EXCEPT !.balance = @ - tx.amount,
                           !.dailySpent = @ + tx.amount,
                           !.monthlySpent = @ + tx.amount]

\* WalletSchema.methods.resetLimits on the date `today`
ResetLimits_DailyOnly(w, today) ==
    [w EXCEPT !.dailySpent = IF w.lastResetDate = today THEN @ ELSE 0,
              !.lastResetDate = today]

ResetLimits(w, today) ==
    LET last == w.lastResetDate
        newDay == \/ today.day # last.day
                  \/ today.month # last.month
                  \/ today.year # last.year
        newMonth == today.month # last.month \/ today.year # last.year
    IN [w EXCEPT !.dailySpent = IF newDay THEN 0 ELSE @,
                 !.monthlySpent = IF newMonth THEN 0 ELSE @,
                 !.lastResetDate = today]

\* WalletSchema.methods.canSpend: what it returns; it leaves the wallet as
\* resetLimits made it
CanSpend_DailyOnly(w, amount, today) ==
    ResetLimits(w, today).dailySpent + amount <= DailyLimit

CanSpend(w, amount, today) ==
    LET reset == ResetLimits(w, today)
    IN /\ reset.dailySpent + amount <= DailyLimit
       /\ reset.monthlySpent + amount <= MonthlyLimit

\* a faulty debit, which does not ask canSpend: the property of C38 tells it
\* from the checks of the code
DebitCheck_NoLimits(w, amount, today) ==
    IF ~w.isActive THEN "wallet_inactive"
    ELSE IF w.balance < amount THEN "insufficient_balance"
    ELSE "ok"

\* the checks of WalletSchema.methods.debit, in the order of the code
DebitCheck_NoBalance(w, amount, today) ==
    IF ~w.isActive THEN "wallet_inactive"
    ELSE IF ~CanSpend(w, amount, today) THEN "limit_exceeded"
    ELSE "ok"

DebitCheck(w, amount, today) ==
    IF ~w.isActive THEN "wallet_inactive"
    ELSE IF w.balance < amount THEN "insufficient_balance"
    ELSE IF ~CanSpend(w, amount, today) THEN "limit_exceeded"
    ELSE "ok"

\* WalletSchema.methods.debit past its checks, up to the save() of
\* addTransaction
Debit(w, amount, category, referenceId, today) ==
    AddTransaction(ResetLimits(w, today),
                   Transaction("debit", amount, "completed", category, referenceId))

\* WalletSchema.methods.credit past its check, up to the save() of
\* addTransaction
Credit(w, amount, category, referenceId) ==
    AddTransaction(w, Transaction("credit", amount, "completed", category, referenceId))

\* the wallet as an invocation loaded it; its transactions are left out, for
\* save() sends the pushed ones only
Loaded(w) == [w EXCEPT !.transactions = <<>>]

\* no wallet loaded
NoWallet ==
    [exists |-> FALSE,
     balance |-> 0, isActive |-> FALSE, transactions |-> <<>>,
     dailySpent |-> 0, monthlySpent |-> 0, lastResetDate |-> Dates[1]]

WalletSave_Increment(stored, loaded, new) ==
    LET doc == PreSave(new)
    IN [stored EXCEPT
            !.transactions = @ \o doc.transactions,
            !.balance = @ + doc.balance - loaded.balance,
            !.isActive = SavePath(@, loaded.isActive, doc.isActive),
            !.dailySpent = SavePath(@, loaded.dailySpent, doc.dailySpent),
            !.monthlySpent = SavePath(@, loaded.monthlySpent, doc.monthlySpent),
            !.lastResetDate = SavePath(@, loaded.lastResetDate, doc.lastResetDate)]

\* a faulty save, which writes the transactions of the document over the
\* stored array: the property of C35 tells it from the save of the code
WalletSave_SetLog(stored, loaded, new) ==
    LET doc == PreSave(new)
    IN [stored EXCEPT
            !.transactions = doc.transactions,
            !.balance = SavePath(@, loaded.balance, doc.balance),
            !.isActive = SavePath(@, loaded.isActive, doc.isActive),
            !.dailySpent = SavePath(@, loaded.dailySpent, doc.dailySpent),
            !.monthlySpent = SavePath(@, loaded.monthlySpent, doc.monthlySpent),
            !.lastResetDate = SavePath(@, loaded.lastResetDate, doc.lastResetDate)]

\* wallet.save(): the pre('save') hook, then $push of the new transactions
\* and $set of the paths that changed
WalletSave(stored, loaded, new) ==
    LET doc == PreSave(new)
    IN [stored EXCEPT
            !.transactions = @ \o doc.transactions,
            !.balance = SavePath(@, loaded.balance, doc.balance),
            !.isActive = SavePath(@, loaded.isActive, doc.isActive),
            !.dailySpent = SavePath(@, loaded.dailySpent, doc.dailySpent),
            !.monthlySpent = SavePath(@, loaded.monthlySpent, doc.monthlySpent),
            !.lastResetDate = SavePath(@, loaded.lastResetDate, doc.lastResetDate)]

\* --------------------------------------------------------------- invocations
\* no fare has been calculated
NoFare ==
    [baseFare |-> 0, distanceFare |-> 0, timeFare |-> 0, surgeMultiplier |-> 0,
     discount |-> 0, tax |-> 0, tip |-> 0, totalFare |-> 0]

IdleCall ==
    [op |-> "none", pc |-> "idle", actor |-> "none", trip |-> 0,
     arg |-> "none", result |-> "none",
     rdDriver |-> NoDriver, rdAvail |-> "none", rdTrips |-> 0, rdEarnings |-> 0,
     amount |-> 0, peer |-> "none", method |-> "none", referenceId |-> <<>>,
     debit |-> "none",
     rating |-> 0, rdPassengerRating |-> 0, rdDriverRating |-> 0,
     rdAverage |-> 0, rdRatings |-> 0,
     distance |-> 0, duration |-> 0, fare |-> NoFare,
     nearbyDrivers |-> {}, rdPaymentStatus |-> "none",
     rdWallet |-> NoWallet, rdPeer |-> NoWallet, newWallet |-> NoWallet]

\* the handler returns or throws: the invocation ends with its result
Done(call, result) == [call EXCEPT !.pc = "done", !.result = result]

Init ==
    /\ trips = <<>>
    /\ drivers = [d \in Drivers |->
                    [driverStatus |-> "approved", availability |-> "online",
                     totalTrips |-> 0, totalEarnings |-> 0,
                     averageRating |-> 0, totalRatings |-> 0]]
    /\ calls = [c \in Calls |-> IdleCall]
    /\ accepted = {}
    /\ settlements = <<>>
    /\ events = {}
    /\ now = 1
    /\ wallets = [u \in Users |-> NewWallet]

\* A response that is ready is delivered before anything else happens, and a
\* new invocation takes the lowest free slot: a finished invocation acts on
\* nothing, and the slots are interchangeable.
NoneDone == \A c \in Calls : calls[c].pc # "done"

LowestFree(c) ==
    calls[c].pc = "idle" => \A o \in Calls : o < c => calls[o].pc # "idle"

\* invocation c may take its next step
Ready(c) == NoneDone /\ LowestFree(c)

\* number of trips that exist or are about to be inserted
TripsBudget ==
    Len(trips) + Cardinality({c \in Calls : calls[c].pc = "rr_save"})

\* ------------------------------------------------------ RideService.requestRide
\* role check, then Trip.findOne for an active trip of the requester
RequestRide_FindActive(c, u, v) ==
    /\ Ready(c)
    /\ calls[c].pc = "idle"
    /\ LET call == [IdleCall EXCEPT !.op = "requestRide", !.actor = u, !.arg = v]
       IN calls' = [calls EXCEPT ![c] =
            IF UserRole(u) # "passenger" THEN Done(call, "role")
            ELSE IF PassengerHasActiveTrip(u) THEN Done(call, "already_active")
            ELSE [call EXCEPT !.pc = "rr_save"]]
    /\ UNCHANGED <<trips, drivers, accepted, settlements, events, wallets, now>>

\* new Trip({... status: REQUESTED ...}); await trip.save()
RequestRide_Save(c) ==
    /\ Ready(c)
    /\ calls[c].pc = "rr_save"
    /\ trips' = Append(trips, NewTrip(calls[c].actor))
    /\ calls' = [calls EXCEPT ![c].pc = "rr_find", ![c].trip = Len(trips) + 1]
    /\ UNCHANGED <<drivers, accepted, settlements, events, wallets, now>>

\* findNearbyDrivers, then 'No drivers available' or the fan-out: the
\* 'ride.requested' event carries the ids of the drivers found
RequestRide_FindDrivers(c) ==
    /\ Ready(c)
    /\ calls[c].pc = "rr_find"
    /\ calls' = [calls EXCEPT ![c] =
            IF FindNearbyDrivers(calls[c].arg) = {}
            THEN Done(calls[c], "no_drivers")
            ELSE Done([calls[c] EXCEPT
                        !.nearbyDrivers = FindNearbyDrivers(calls[c].arg)], "ok")]
    /\ UNCHANGED <<trips, drivers, accepted, settlements, events, wallets, now>>

\* ------------------------------------------------------- RideService.acceptRide
\* role check, Driver.findOne({userId}), isAvailableForRide
AcceptRide_FindDriver(c, u, t) ==
    /\ Ready(c)
    /\ calls[c].pc = "idle"
    /\ LET call == [IdleCall EXCEPT !.op = "acceptRide", !.actor = u, !.trip = t]
       IN calls' = [calls EXCEPT ![c] =
            IF UserRole(u) # "driver" THEN Done(call, "role")
            ELSE IF ~IsAvailableForRide(u) THEN Done(call, "driver_unavailable")
            ELSE [call EXCEPT !.pc = "ar_active", !.rdAvail = drivers[u].availability]]
    /\ UNCHANGED <<trips, drivers, accepted, settlements, events, wallets, now>>

\* Trip.findOne for an active trip of the driver
AcceptRide_FindActive(c) ==
    /\ Ready(c)
    /\ calls[c].pc = "ar_active"
    /\ calls' = [calls EXCEPT ![c] =
            IF DriverHasActiveTrip(calls[c].actor)
            THEN Done(calls[c], "already_active")
            ELSE [calls[c] EXCEPT !.pc = "ar_trip"]]
    /\ UNCHANGED <<trips, drivers, accepted, settlements, events, wallets, now>>

\* a faulty guard, which lets a second driver take a trip that is accepted:
\* the property of C33 tells it from the guard of the code
AcceptableStatus_Accepted(status) == status \in {"requested", "accepted"}

\* the guard of acceptRide on the loaded trip
AcceptableStatus(status) == status = "requested"

\* Trip.findById; 'Trip not found'; 'Trip is no longer available'
AcceptRide_FindTrip(c) ==
    /\ Ready(c)
    /\ calls[c].pc = "ar_trip"
    /\ calls' = [calls EXCEPT ![c] =
            IF calls[c].trip \notin TripIds THEN Done(calls[c], "trip_not_found")
            ELSE IF ~AcceptableStatus(trips[calls[c].trip].status)
                 THEN Done(calls[c], "trip_unavailable")
            ELSE [calls[c] EXCEPT !.pc = "ar_save"]]
    /\ UNCHANGED <<trips, drivers, accepted, settlements, events, wallets, now>>

\* the update trip.save() of acceptRide sends: it names the trip by _id alone
AcceptRide_Write(stored, call) ==
    [UpdateStatus(stored, "accepted") EXCEPT !.driverId = call.actor]

\* trip.driverId = driver._id; trip.updateStatus(ACCEPTED); await trip.save()
AcceptRide_SaveTrip(c) ==
    /\ Ready(c)
    /\ calls[c].pc = "ar_save"
    /\ trips' = [trips EXCEPT ![calls[c].trip] = AcceptRide_Write(@, calls[c])]
    /\ calls' = [calls EXCEPT ![c].pc = "ar_driver"]
    /\ UNCHANGED <<drivers, accepted, settlements, events, wallets, now>>

\* driver.availability = BUSY; await driver.save()
AcceptRide_SaveDriver(c) ==
    /\ Ready(c)
    /\ calls[c].pc = "ar_driver"
    /\ drivers' = [drivers EXCEPT ![calls[c].actor].availability =
                        SavePath(@, calls[c].rdAvail, "busy")]
    /\ calls' = [calls EXCEPT ![c] = Done(calls[c], "ok")]
    /\ accepted' = accepted \cup {<<calls[c].trip, calls[c].actor>>}
    /\ UNCHANGED <<trips, settlements, events, wallets, now>>

\* ------------------------------------------------- RideService.updateTripStatus
\* a faulty permission check, which lets every driver through: the property
\* of C10 tells it from the check of the code
IsParty_AnyDriver(trip, u) == IsPassenger(trip, u) \/ u \in Drivers

\* 'You are not authorized to update this trip' / '... to cancel this trip'
IsParty(trip, u) == IsPassenger(trip, u) \/ IsDriver(trip, u)

\* the checks of updateTripStatus on the loaded trip, in the order of the code
UpdateTripStatus_Check(trip, u, s) ==
    IF ~IsParty(trip, u) THEN "not_authorized"
    ELSE IF s \notin ValidTransitions(trip.status) THEN "state_conflict"
    ELSE IF s \in DriverOnlyStatuses /\ ~IsDriver(trip, u) THEN "driver_only"
    ELSE "ok"

\* UpdateTripStatusSchema.parse, Trip.findById(tripId).populate('driverId')
UpdateTripStatus_Find(c, u, t, s) ==
    /\ Ready(c)
    /\ calls[c].pc = "idle"
    /\ LET call == [IdleCall EXCEPT !.op = "updateTripStatus", !.actor = u,
                                    !.trip = t, !.arg = s]
       IN calls' = [calls EXCEPT ![c] =
            IF s \notin UpdateTripStatusSchema THEN Done(call, "validation")
            ELSE IF t \notin TripIds THEN Done(call, "trip_not_found")
            ELSE LET read == [call EXCEPT !.rdDriver = trips[t].driverId]
                     check == UpdateTripStatus_Check(trips[t], u, s)
                 IN IF check # "ok" THEN Done(read, check)
                    ELSE [read EXCEPT !.pc = "us_save"]]
    /\ UNCHANGED <<trips, drivers, accepted, settlements, events, wallets, now>>

\* this.broker.call('payment.processRidePayment', {tripId, amount:
\* trip.fareBreakdown.totalFare, ...}), not awaited.  No handler changes the
\* fare of a stored trip, so the fare of the loaded trip is the stored one.
ProcessPayment(sent, t) ==
    Append(sent, [tripId |-> t, amount |-> trips[t].fareBreakdown.totalFare])

\* trip.updateStatus(status); await trip.save(); a COMPLETED trip without a
\* driver goes on to the payment at once
UpdateTripStatus_Save(c) ==
    /\ Ready(c)
    /\ calls[c].pc = "us_save"
    /\ trips' = [trips EXCEPT ![calls[c].trip] = UpdateStatus(@, calls[c].arg)]
    /\ calls' = [calls EXCEPT ![c] =
            IF calls[c].arg = "completed" /\ calls[c].rdDriver # NoDriver
            THEN [calls[c] EXCEPT !.pc = "us_driver"]
            ELSE Done(calls[c], "ok")]
    /\ settlements' = IF calls[c].arg = "completed" /\ calls[c].rdDriver = NoDriver
                      THEN ProcessPayment(settlements, calls[c].trip)
                      ELSE settlements
    /\ UNCHANGED <<drivers, accepted, events, wallets, now>>

\* status COMPLETED: Driver.findById(trip.driverId)
UpdateTripStatus_FindDriver(c) ==
    /\ Ready(c)
    /\ calls[c].pc = "us_driver"
    /\ calls' = [calls EXCEPT ![c].pc = "us_dsave",
                              ![c].rdAvail = drivers[calls[c].rdDriver].availability,
                              ![c].rdTrips = drivers[calls[c].rdDriver].totalTrips,
                              ![c].rdEarnings = drivers[calls[c].rdDriver].totalEarnings]
    /\ UNCHANGED <<trips, drivers, accepted, settlements, events, wallets, now>>

\* a faulty update of the statistics, which adds the earning of the driver
\* (the fare less the commission) where the code adds the fare: the property
\* of C29 tells it from the code
Earnings_LessCommission(totalEarnings, totalFare) ==
    totalEarnings + totalFare - (totalFare * 15) \div 100

\* driver.stats.totalEarnings += trip.fareBreakdown.totalFare
Earnings(totalEarnings, totalFare) == totalEarnings + totalFare

\* driver.availability = ONLINE; driver.stats.totalTrips += 1;
\* driver.stats.totalEarnings += totalFare; await driver.save(); then the
\* payment is asked for
UpdateTripStatus_SaveDriver(c) ==
    /\ Ready(c)
    /\ calls[c].pc = "us_dsave"
    /\ drivers' = [drivers EXCEPT ![calls[c].rdDriver] =
            [@ EXCEPT !.availability = SavePath(@, calls[c].rdAvail, "online"),
                      !.totalTrips = calls[c].rdTrips + 1,
                      !.totalEarnings =
                            Earnings(calls[c].rdEarnings,
                                     trips[calls[c].trip].fareBreakdown.totalFare)]]
    /\ calls' = [calls EXCEPT ![c] = Done(calls[c], "ok")]
    /\ settlements' = ProcessPayment(settlements, calls[c].trip)
    /\ UNCHANGED <<trips, accepted, events, wallets, now>>

\* ------------------------------------------------------- RideService.cancelTrip
\* the checks of cancelTrip on the loaded trip, in the order of the code
CancelTrip_Check(trip, u) ==
    IF ~CanBeCancelled(trip.status) THEN "not_cancellable"
    ELSE IF ~IsParty(trip, u) THEN "not_authorized"
    ELSE "ok"

\* Trip.findById(tripId).populate('driverId')
CancelTrip_Find(c, u, t) ==
    /\ Ready(c)
    /\ calls[c].pc = "idle"
    /\ LET call == [IdleCall EXCEPT !.op = "cancelTrip", !.actor = u, !.trip = t]
       IN calls' = [calls EXCEPT ![c] =
            IF t \notin TripIds THEN Done(call, "trip_not_found")
            ELSE LET read == [call EXCEPT !.rdDriver = trips[t].driverId]
                     check == CancelTrip_Check(trips[t], u)
                 IN IF check # "ok" THEN Done(read, check)
                    ELSE [read EXCEPT !.pc = "ct_save"]]
    /\ UNCHANGED <<trips, drivers, accepted, settlements, events, wallets, now>>

\* trip.updateStatus(CANCELLED); cancellationReason; cancelledBy; await trip.save()
CancelTrip_Save(c) ==
    /\ Ready(c)
    /\ calls[c].pc = "ct_save"
    /\ trips' = [trips EXCEPT ![calls[c].trip] =
            [UpdateStatus(@, "cancelled") EXCEPT
                !.cancellationReason = TRUE,
                !.cancelledBy = IF IsPassenger(trips[calls[c].trip], calls[c].actor)
                                THEN "passenger" ELSE "driver"]]
    /\ calls' = [calls EXCEPT ![c] =
            IF calls[c].rdDriver # NoDriver
            THEN [calls[c] EXCEPT !.pc = "ct_driver"]
            ELSE Done(calls[c], "ok")]
    /\ UNCHANGED <<drivers, accepted, settlements, events, wallets, now>>

\* if (trip.driverId) Driver.findById(trip.driverId)
CancelTrip_FindDriver(c) ==
    /\ Ready(c)
    /\ calls[c].pc = "ct_driver"
    /\ calls' = [calls EXCEPT ![c].pc = "ct_dsave",
                              ![c].rdAvail = drivers[calls[c].rdDriver].availability]
    /\ UNCHANGED <<trips, drivers, accepted, settlements, events, wallets, now>>

\* driver.availability = ONLINE; await driver.save()
CancelTrip_SaveDriver(c) ==
    /\ Ready(c)
    /\ calls[c].pc = "ct_dsave"
    /\ drivers' = [drivers EXCEPT ![calls[c].rdDriver].availability =
                        SavePath(@, calls[c].rdAvail, "online")]
    /\ calls' = [calls EXCEPT ![c] = Done(calls[c], "ok")]
    /\ UNCHANGED <<trips, accepted, settlements, events, wallets, now>>

\* --------------------------------------------------------- RideService.rateTrip
\* RateTripSchema: rating
RateTripSchema(rating) == rating >= 1 /\ rating <= 5

\* the ratings of the requests; the last is not a rating
RatingArgs == {2, 5, 6}

\* Math.round(newAverage * 100) / 100 of the ratings of a driver, in
\* hundredths
NewAverage(averageRating, totalRatings, rating) ==
    LET sum == averageRating * totalRatings + rating * 100
        n == totalRatings + 1
    IN (2 * sum + n) \div (2 * n)

\* the checks of rateTrip on the loaded trip, in the order of the code; a
\* rating that is not set is 0
RateTrip_Check(trip, u) ==
    IF trip.status # "completed" THEN "not_completed"
    ELSE IF ~IsPassenger(trip, u) /\ ~IsDriver(trip, u) THEN "not_authorized"
    ELSE IF IsPassenger(trip, u) /\ trip.passengerRating # 0 THEN "already_rated"
    ELSE IF ~IsPassenger(trip, u) /\ trip.driverRating # 0 THEN "already_rated"
    ELSE "ok"

\* RateTripSchema.parse, Trip.findById(tripId).populate('driverId'), the
\* checks
RateTrip_Find(c, u, t, r) ==
    /\ Ready(c)
    /\ calls[c].pc = "idle"
    /\ LET call == [IdleCall EXCEPT !.op = "rateTrip", !.actor = u, !.trip = t,
                                    !.rating = r]
       IN calls' = [calls EXCEPT ![c] =
            IF ~RateTripSchema(r) THEN Done(call, "validation")
            ELSE IF t \notin TripIds THEN Done(call, "trip_not_found")
            ELSE LET read == [call EXCEPT
                                !.rdDriver = trips[t].driverId,
                                !.rdPassengerRating = trips[t].passengerRating,
                                !.rdDriverRating = trips[t].driverRating]
                     check == RateTrip_Check(trips[t], u)
                 IN IF check # "ok" THEN Done(read, check)
                    ELSE IF IsPassenger(trips[t], u) /\ trips[t].driverId # NoDriver
                    THEN [read EXCEPT !.pc = "rt_driver"]
                    ELSE [read EXCEPT !.pc = "rt_save"]]
    /\ UNCHANGED <<trips, drivers, accepted, settlements, events, wallets, now>>

\* a requester rates: Driver.findById(trip.driverId)
RateTrip_FindDriver(c) ==
    /\ Ready(c)
    /\ calls[c].pc = "rt_driver"
    /\ calls' = [calls EXCEPT ![c].pc = "rt_dsave",
                              ![c].rdAverage = drivers[calls[c].rdDriver].averageRating,
                              ![c].rdRatings = drivers[calls[c].rdDriver].totalRatings]
    /\ UNCHANGED <<trips, drivers, accepted, settlements, events, wallets, now>>

\* driver.stats.averageRating, driver.stats.totalRatings; await driver.save()
RateTrip_SaveDriver(c) ==
    /\ Ready(c)
    /\ calls[c].pc = "rt_dsave"
    /\ drivers' = [drivers EXCEPT ![calls[c].rdDriver] =
            [@ EXCEPT !.averageRating =
                        SavePath(@, calls[c].rdAverage,
                                 NewAverage(calls[c].rdAverage, calls[c].rdRatings,
                                            calls[c].rating)),
                      !.totalRatings = calls[c].rdRatings + 1]]
    /\ calls' = [calls EXCEPT ![c].pc = "rt_save"]
    /\ UNCHANGED <<trips, accepted, settlements, events, wallets, now>>

\* trip.ratings.passengerRating or trip.ratings.driverRating = ratingData;
\* await trip.save().  On a trip loaded without ratings the handler has set
\* trip.ratings = {} first, and the save writes ratings as a whole.
RateTrip_SaveTrip(c) ==
    /\ Ready(c)
    /\ calls[c].pc = "rt_save"
    /\ LET t == calls[c].trip
           noRatings == calls[c].rdPassengerRating = 0 /\ calls[c].rdDriverRating = 0
       IN trips' = [trips EXCEPT ![t] =
            IF IsPassenger(trips[t], calls[c].actor)
            THEN [@ EXCEPT !.passengerRating = calls[c].rating,
                           !.driverRating = IF noRatings THEN 0 ELSE @]
            ELSE [@ EXCEPT !.driverRating = calls[c].rating,
                           !.passengerRating = IF noRatings THEN 0 ELSE @]]
    /\ calls' = [calls EXCEPT ![c] = Done(calls[c], "ok")]
    /\ UNCHANGED <<drivers, accepted, settlements, events, wallets, now>>

\* -------------------------------------------------- RideService.getFareEstimate
\* getFareEstimate: the coordinates are required; calculateDistance (here the
\* distance between the two locations is the input), estimatedDuration,
\* calculateFare
GetFareEstimate(c, located, distance, vehicleType) ==
    /\ Ready(c)
    /\ calls[c].pc = "idle"
    /\ LET call == [IdleCall EXCEPT !.op = "getFareEstimate", !.arg = vehicleType]
           estimatedDuration == EstimatedDuration(distance)
       IN calls' = [calls EXCEPT ![c] =
            IF ~located THEN Done(call, "validation")
            ELSE Done([call EXCEPT
                        !.distance = distance,
                        !.duration = estimatedDuration,
                        !.fare = CalculateFare(distance, estimatedDuration, vehicleType)],
                      "ok")]
    /\ UNCHANGED <<trips, drivers, accepted, settlements, events, wallets, now>>

\* ----------------------------------------------------------- PaymentService
\* transactions in the wallets or about to be pushed by an invocation
TxBudget ==
    Cardinality(UNION {{u} \X DOMAIN wallets[u].transactions : u \in Users})
    + Cardinality({c \in Calls : calls[c].pc \in {"tp_save", "wd_save", "tf_credit"}})
    + Cardinality({c \in Calls : calls[c].pc \in {"pp_driver", "pp_credit"}})
    + 2 * Cardinality({c \in Calls : calls[c].pc \in {"tf_recipient", "tf_debit"}})
    + 2 * Cardinality({c \in Calls : calls[c].pc \in {"pp_wallet", "pp_debit"}})

\* TopupWalletSchema, WithdrawSchema, TransferSchema: the amount
TopupWalletSchema(amount) == amount >= Dollars(1) /\ amount <= Dollars(1000)
WithdrawSchema(amount) == amount >= Dollars(10)
TransferSchema(amount) == amount >= Dollars(1)

\* the wallet an invocation loaded
LoadedWallet(call) == call.rdWallet

\* Wallet.findOne({userId})
ReadWallet(call, u) == [call EXCEPT !.rdWallet = Loaded(wallets[u])]

\* topupWallet: parse, Wallet.findOne({userId}), processStripePayment (which
\* always succeeds), and addTransaction({CREDIT, amount, WALLET_TOPUP,
\* COMPLETED}) up to its save()
TopupWallet_Find(c, u, a) ==
    /\ Ready(c)
    /\ calls[c].pc = "idle"
    /\ LET call == [IdleCall EXCEPT !.op = "topupWallet", !.actor = u, !.amount = a]
           read == ReadWallet(call, u)
           tx == Transaction("credit", a, "completed", "wallet_topup", <<>>)
       IN calls' = [calls EXCEPT ![c] =
            IF ~TopupWalletSchema(a) THEN Done(call, "validation")
            ELSE IF ~wallets[u].exists THEN Done(call, "wallet_not_found")
            ELSE IF ~wallets[u].isActive THEN Done(read, "wallet_inactive")
            ELSE [read EXCEPT !.pc = "tp_save",
                              !.newWallet = AddTransaction(read.rdWallet, tx)]]
    /\ UNCHANGED <<trips, drivers, accepted, settlements, events, wallets, now>>

\* the save() of addTransaction
TopupWallet_Save(c) ==
    /\ Ready(c)
    /\ calls[c].pc = "tp_save"
    /\ wallets' = [wallets EXCEPT ![calls[c].actor] =
            WalletSave(@, LoadedWallet(calls[c]), calls[c].newWallet)]
    /\ calls' = [calls EXCEPT ![c] = Done(calls[c], "ok")]
    /\ UNCHANGED <<trips, drivers, accepted, settlements, events, now>>

\* withdrawFromWallet: parse, Wallet.findOne({userId}), the balance check,
\* and addTransaction({DEBIT, amount, WITHDRAWAL, TransactionStatus.PROCESSING})
\* up to its save(); the enum has no PROCESSING, the status passed is
\* undefined
WithdrawFromWallet_Find(c, u, a) ==
    /\ Ready(c)
    /\ calls[c].pc = "idle"
    /\ LET call == [IdleCall EXCEPT !.op = "withdrawFromWallet", !.actor = u,
                                    !.amount = a]
           read == ReadWallet(call, u)
           tx == Transaction("debit", a, "undefined", "withdrawal", <<>>)
       IN calls' = [calls EXCEPT ![c] =
            IF ~WithdrawSchema(a) THEN Done(call, "validation")
            ELSE IF ~wallets[u].exists THEN Done(call, "wallet_not_found")
            ELSE IF ~wallets[u].isActive THEN Done(read, "wallet_inactive")
            ELSE IF wallets[u].balance < a THEN Done(read, "insufficient_balance")
            ELSE [read EXCEPT !.pc = "wd_save",
                              !.newWallet = AddTransaction(read.rdWallet, tx)]]
    /\ UNCHANGED <<trips, drivers, accepted, settlements, events, wallets, now>>

\* the save() of addTransaction
WithdrawFromWallet_Save(c) ==
    /\ Ready(c)
    /\ calls[c].pc = "wd_save"
    /\ wallets' = [wallets EXCEPT ![calls[c].actor] =
            WalletSave(@, LoadedWallet(calls[c]), calls[c].newWallet)]
    /\ calls' = [calls EXCEPT ![c] = Done(calls[c], "ok")]
    /\ UNCHANGED <<trips, drivers, accepted, settlements, events, now>>

\* transferMoney: parse, recipientId === userId, Wallet.findOne({userId})
TransferMoney_FindSender(c, u, r, a) ==
    /\ Ready(c)
    /\ calls[c].pc = "idle"
    /\ LET call == [IdleCall EXCEPT !.op = "transferMoney", !.actor = u,
                                    !.peer = r, !.amount = a]
       IN calls' = [calls EXCEPT ![c] =
            IF ~TransferSchema(a) THEN Done(call, "validation")
            ELSE IF r = u THEN Done(call, "self_transfer")
            ELSE IF ~wallets[u].exists THEN Done(call, "wallet_not_found")
            ELSE [ReadWallet(call, u) EXCEPT !.pc = "tf_recipient"]]
    /\ UNCHANGED <<trips, drivers, accepted, settlements, events, wallets, now>>

\* Wallet.findOne({userId: recipientId}), the isActive checks, canSpend,
\* transferId = `tf_${Date.now()}`, and senderWallet.debit up to the save()
\* of its addTransaction
TransferMoney_FindRecipient(c) ==
    /\ Ready(c)
    /\ calls[c].pc = "tf_recipient"
    /\ LET read == [calls[c] EXCEPT !.rdPeer = Loaded(wallets[calls[c].peer])]
           sender == LoadedWallet(calls[c])
           a == calls[c].amount
           transferId == <<"tf", TxBudget>>
           \* canSpend has left the sender wallet as resetLimits made it
           check == DebitCheck(ResetLimits(sender, Today), a, Today)
       IN calls' = [calls EXCEPT ![c] =
            IF ~wallets[calls[c].peer].exists THEN Done(calls[c], "wallet_not_found")
            ELSE IF ~sender.isActive \/ ~read.rdPeer.isActive
            THEN Done(read, "wallet_inactive")
            ELSE IF ~CanSpend(sender, a, Today) THEN Done(read, "limit_exceeded")
            ELSE IF check # "ok" THEN Done([read EXCEPT !.debit = check], check)
            ELSE [read EXCEPT
                    !.pc = "tf_debit", !.debit = "ok",
                    !.referenceId = transferId,
                    !.newWallet = Debit(sender, a, "wallet_topup", transferId, Today)]]
    /\ UNCHANGED <<trips, drivers, accepted, settlements, events, wallets, now>>

\* the save() of the addTransaction of senderWallet.debit
TransferMoney_Debit(c) ==
    /\ Ready(c)
    /\ calls[c].pc = "tf_debit"
    /\ wallets' = [wallets EXCEPT ![calls[c].actor] =
            WalletSave(@, LoadedWallet(calls[c]), calls[c].newWallet)]
    /\ calls' = [calls EXCEPT ![c].pc = "tf_credit"]
    /\ UNCHANGED <<trips, drivers, accepted, settlements, events, now>>

\* recipientWallet.credit: addTransaction({CREDIT, amount, COMPLETED}) on the
\* recipient wallet as it was loaded, and its save()
TransferMoney_Credit(c) ==
    /\ Ready(c)
    /\ calls[c].pc = "tf_credit"
    /\ wallets' = [wallets EXCEPT ![calls[c].peer] =
            WalletSave(@, calls[c].rdPeer,
                       Credit(calls[c].rdPeer, calls[c].amount, "wallet_topup",
                              calls[c].referenceId))]
    /\ calls' = [calls EXCEPT ![c] = Done(calls[c], "ok")]
    /\ UNCHANGED <<trips, drivers, accepted, settlements, events, now>>

TransferMoney_CreditFails_Compensated(c) ==
    /\ Ready(c)
    /\ calls[c].pc = "tf_credit"
    /\ wallets' = [wallets EXCEPT ![calls[c].actor] =
            WalletSave(@, Loaded(@),
                       Credit(Loaded(@), calls[c].amount, "refund",
                              calls[c].referenceId))]
    /\ calls' = [calls EXCEPT ![c] = Done(calls[c], "credit_failed")]
    /\ UNCHANGED <<trips, drivers, accepted, settlements, events, now>>

\* the save() of recipientWallet.credit rejects (the database is unreachable,
\* the write is refused): credit throws, transferMoney logs the error and
\* throws it on
TransferMoney_CreditFails(c) ==
    /\ Ready(c)
    /\ calls[c].pc = "tf_credit"
    /\ calls' = [calls EXCEPT ![c] = Done(calls[c], "credit_failed")]
    /\ UNCHANGED <<trips, drivers, accepted, settlements, events, wallets, now>>

\* getWallet: Wallet.findOne({userId}), wallet.resetLimits()
GetWallet_Find(c, u) ==
    /\ Ready(c)
    /\ calls[c].pc = "idle"
    /\ LET call == [IdleCall EXCEPT !.op = "getWallet", !.actor = u]
           read == ReadWallet(call, u)
       IN calls' = [calls EXCEPT ![c] =
            IF ~wallets[u].exists THEN [call EXCEPT !.pc = "gw_create"]
            ELSE [read EXCEPT !.pc = "gw_save",
                              !.newWallet = ResetLimits(read.rdWallet, Today)]]
    /\ UNCHANGED <<trips, drivers, accepted, settlements, events, wallets, now>>

\* createWalletForUser: new Wallet({userId, balance: 0, isActive: true});
\* await wallet.save().  userId is unique: when a wallet of the user has been
\* inserted meanwhile the save fails and getWallet throws.
GetWallet_Create(c) ==
    /\ Ready(c)
    /\ calls[c].pc = "gw_create"
    /\ wallets' = [wallets EXCEPT ![calls[c].actor] =
                        IF @.exists THEN @ ELSE NewWallet]
    /\ calls' = [calls EXCEPT ![c] =
            IF wallets[calls[c].actor].exists THEN Done(calls[c], "failed")
            ELSE [calls[c] EXCEPT !.pc = "gw_save",
                                  !.rdWallet = Loaded(NewWallet),
                                  !.newWallet = ResetLimits(NewWallet, Today)]]
    /\ UNCHANGED <<trips, drivers, accepted, settlements, events, now>>

\* await wallet.save()
GetWallet_Save(c) ==
    /\ Ready(c)
    /\ calls[c].pc = "gw_save"
    /\ wallets' = [wallets EXCEPT ![calls[c].actor] =
            WalletSave(@, LoadedWallet(calls[c]), calls[c].newWallet)]
    /\ calls' = [calls EXCEPT ![c] = Done(calls[c], "ok")]
    /\ UNCHANGED <<trips, drivers, accepted, settlements, events, now>>

\* updateWalletStatus of an administrator: Wallet.findById(walletId),
\* wallet.isActive = isActive
UpdateWalletStatus_Find(c, u, isActive) ==
    /\ Ready(c)
    /\ calls[c].pc = "idle"
    /\ LET call == [IdleCall EXCEPT !.op = "updateWalletStatus", !.actor = "admin",
                                    !.peer = u]
           read == ReadWallet(call, u)
       IN calls' = [calls EXCEPT ![c] =
            IF ~wallets[u].exists THEN Done(call, "wallet_not_found")
            ELSE [read EXCEPT !.pc = "ws_save",
                              !.newWallet = [read.rdWallet EXCEPT !.isActive = isActive]]]
    /\ UNCHANGED <<trips, drivers, accepted, settlements, events, wallets, now>>

\* await wallet.save()
UpdateWalletStatus_Save(c) ==
    /\ Ready(c)
    /\ calls[c].pc = "ws_save"
    /\ wallets' = [wallets EXCEPT ![calls[c].peer] =
            WalletSave(@, LoadedWallet(calls[c]), calls[c].newWallet)]
    /\ calls' = [calls EXCEPT ![c] = Done(calls[c], "ok")]
    /\ UNCHANGED <<trips, drivers, accepted, settlements, events, now>>

\* the fares a settlement is asked to settle
Fares == {Dollars(21) + 600}

\* trip.paymentMethod
PaymentMethods == {"wallet", "cash"}

\* platformFee = amount * 0.15; driverEarning = amount - platformFee
DriverEarning(amount) == amount - (amount * 15) \div 100

\* this.broker.emit('payment.completed', {tripId, amount, paymentMethod,
\* success, transactionId}) at the end of processRidePayment.  The events in
\* flight are a set: handling the same payload twice writes the same value.
Emit(emitted, call, success) ==
    emitted \cup {[tripId |-> call.trip, amount |-> call.amount,
                   paymentMethod |-> call.method, success |-> success]}

\* processRidePayment: broker.call('ride.findById', {tripId}), taken to reach
\* RideService.findById, which loads the trip and does not populate it.  The
\* handler catches what is thrown and returns {success: false}: the result of
\* the invocation is then the error it logs.
ProcessRidePayment_FindTrip(c, t, a, m) ==
    /\ Ready(c)
    /\ calls[c].pc = "idle"
    /\ LET call == [IdleCall EXCEPT !.op = "processRidePayment", !.trip = t,
                                    !.amount = a, !.method = m]
       IN calls' = [calls EXCEPT ![c] =
            IF t \notin TripIds THEN Done(call, "trip_not_found")
            ELSE [call EXCEPT !.pc = "pp_wallet",
                              !.actor = trips[t].passengerId,
                              !.rdDriver = trips[t].driverId]]
    /\ UNCHANGED <<trips, drivers, accepted, settlements, events, wallets, now>>

\* Wallet.findOne({userId: trip.passengerId}); for the payment method
\* 'wallet', passengerWallet.debit up to the save() of its addTransaction;
\* for another method nothing is paid and {success: false} is returned
ProcessRidePayment_FindWallet(c) ==
    /\ Ready(c)
    /\ calls[c].pc = "pp_wallet"
    /\ LET read == ReadWallet(calls[c], calls[c].actor)
           check == DebitCheck(read.rdWallet, calls[c].amount, Today)
       IN calls' = [calls EXCEPT ![c] =
            IF ~wallets[calls[c].actor].exists THEN Done(calls[c], "wallet_not_found")
            ELSE IF calls[c].method # "wallet" THEN Done(read, "not_paid")
            ELSE IF check # "ok" THEN Done([read EXCEPT !.debit = check], check)
            ELSE [read EXCEPT
                    !.pc = "pp_debit", !.debit = "ok",
                    !.referenceId = <<"trip", calls[c].trip>>,
                    !.newWallet = Debit(read.rdWallet, calls[c].amount, "ride_payment",
                                        <<"trip", calls[c].trip>>, Today)]]
    /\ events' = IF wallets[calls[c].actor].exists /\ calls[c].method # "wallet"
                 THEN Emit(events, calls[c], FALSE) ELSE events
    /\ UNCHANGED <<trips, drivers, accepted, settlements, wallets, now>>

\* the save() of the addTransaction of passengerWallet.debit; then
\* `if (trip.driverId)`
ProcessRidePayment_Debit(c) ==
    /\ Ready(c)
    /\ calls[c].pc = "pp_debit"
    /\ wallets' = [wallets EXCEPT ![calls[c].actor] =
            WalletSave(@, LoadedWallet(calls[c]), calls[c].newWallet)]
    /\ calls' = [calls EXCEPT ![c] =
            IF calls[c].rdDriver = NoDriver THEN Done(calls[c], "ok")
            ELSE [calls[c] EXCEPT !.pc = "pp_driver"]]
    /\ events' = IF calls[c].rdDriver = NoDriver
                 THEN Emit(events, calls[c], TRUE) ELSE events
    /\ UNCHANGED <<trips, drivers, accepted, settlements, now>>

\* Wallet.findOne({userId: trip.driverId.userId}): the trip is not populated,
\* trip.driverId is an id and its userId is undefined.  What a query for an
\* undefined value finds depends on the query layer: no wallet (found =
\* "none") or whichever wallet comes first (found any user).  With a wallet,
\* driverWallet.credit up to the save() of its addTransaction.
ProcessRidePayment_FindDriverWallet(c, found) ==
    /\ Ready(c)
    /\ calls[c].pc = "pp_driver"
    /\ found \in Users => wallets[found].exists
    /\ calls' = [calls EXCEPT ![c] =
            IF found = "none" THEN Done(calls[c], "ok")
            ELSE LET read == [calls[c] EXCEPT !.peer = found,
                                              !.rdPeer = Loaded(wallets[found])]
                 IN IF ~read.rdPeer.isActive THEN Done(read, "wallet_inactive")
                    ELSE [read EXCEPT !.pc = "pp_credit"]]
    /\ events' = IF found = "none" THEN Emit(events, calls[c], TRUE) ELSE events
    /\ UNCHANGED <<trips, drivers, accepted, settlements, wallets, now>>

\* the save() of the addTransaction of driverWallet.credit
ProcessRidePayment_Credit(c) ==
    /\ Ready(c)
    /\ calls[c].pc = "pp_credit"
    /\ wallets' = [wallets EXCEPT ![calls[c].peer] =
            WalletSave(@, calls[c].rdPeer,
                       Credit(calls[c].rdPeer, DriverEarning(calls[c].amount),
                              "ride_earning", calls[c].referenceId))]
    /\ calls' = [calls EXCEPT ![c] = Done(calls[c], "ok")]
    /\ events' = Emit(events, calls[c], TRUE)
    /\ UNCHANGED <<trips, drivers, accepted, settlements, now>>

\* ------------------------------------------------ RideService.onPaymentCompleted
\* const { tripId, status } = payload: a field the payload lacks is undefined
StatusOf(payload) ==
    IF "status" \in DOMAIN payload THEN payload.status ELSE "undefined"

\* the event is delivered: Trip.findById(tripId)
OnPaymentCompleted_Find(c, payload) ==
    /\ Ready(c)
    /\ calls[c].pc = "idle"
    /\ payload \in events
    /\ events' = events \ {payload}
    /\ LET call == [IdleCall EXCEPT !.op = "onPaymentCompleted",
                                    !.trip = payload.tripId,
                                    !.arg = StatusOf(payload)]
       IN calls' = [calls EXCEPT ![c] =
            IF payload.tripId \notin TripIds THEN Done(call, "ok")
            ELSE [call EXCEPT !.pc = "pc_save",
                              !.rdPaymentStatus = trips[payload.tripId].paymentStatus]]
    /\ UNCHANGED <<trips, drivers, accepted, settlements, wallets, now>>

\* trip.paymentStatus = status; await trip.save(): the path has no validator
\* that refuses undefined, and a path set to undefined is removed
OnPaymentCompleted_Save(c) ==
    /\ Ready(c)
    /\ calls[c].pc = "pc_save"
    /\ trips' = [trips EXCEPT ![calls[c].trip].paymentStatus =
                    SavePath(@, calls[c].rdPaymentStatus, calls[c].arg)]
    /\ calls' = [calls EXCEPT ![c] = Done(calls[c], "ok")]
    /\ UNCHANGED <<drivers, accepted, settlements, events, wallets, now>>

\* the calendar moves on to the next date
Tick(lastDate) ==
    /\ NoneDone
    /\ now < lastDate
    /\ now < Len(Dates)
    /\ now' = now + 1
    /\ UNCHANGED <<trips, drivers, calls, accepted, settlements, events, wallets>>

\* ------------------------------------------------------------------ responses
\* the response has been delivered: the slot serves the next request
Return(c) ==
    /\ calls[c].pc = "done"
    /\ calls' = [calls EXCEPT ![c] = IdleCall]
    /\ UNCHANGED <<trips, drivers, accepted, settlements, events, wallets, now>>


\* the trip ids a request may name: the trips there may be; one that has not
\* been requested yet is not found
TripArgs(maxTrips) == 1..maxTrips

\* ------------------------------------------------------------ specifications
RequestRide(c, maxTrips) ==
    \/ /\ TripsBudget < maxTrips
       /\ \E u \in Users, v \in VehicleTypes : RequestRide_FindActive(c, u, v)
    \/ RequestRide_Save(c)
    \/ RequestRide_FindDrivers(c)

AcceptRide(c, maxTrips) ==
    \/ \E u \in Users, t \in TripArgs(maxTrips) : AcceptRide_FindDriver(c, u, t)
    \/ AcceptRide_FindActive(c)
    \/ AcceptRide_FindTrip(c)
    \/ AcceptRide_SaveTrip(c)
    \/ AcceptRide_SaveDriver(c)

UpdateTripStatus(c, maxTrips) ==
    \/ \E u \in Users, t \in TripArgs(maxTrips), s \in TripStatus : UpdateTripStatus_Find(c, u, t, s)
    \/ UpdateTripStatus_Save(c)
    \/ UpdateTripStatus_FindDriver(c)
    \/ UpdateTripStatus_SaveDriver(c)

CancelTrip(c, maxTrips) ==
    \/ \E u \in Users, t \in TripArgs(maxTrips) : CancelTrip_Find(c, u, t)
    \/ CancelTrip_Save(c)
    \/ CancelTrip_FindDriver(c)
    \/ CancelTrip_SaveDriver(c)

\* the handlers of the ride lifecycle, any number of them interleaved
Step(c) ==
    \/ RequestRide(c, MaxTrips)
    \/ AcceptRide(c, MaxTrips)
    \/ UpdateTripStatus(c, MaxTrips)
    \/ CancelTrip(c, MaxTrips)

Next == \E c \in Calls : Return(c) \/ Step(c)

Spec == Init /\ [][Next]_vars

\* one invocation at a time: each handler runs to its response alone
SeqNext == Return(1) \/ Step(1)

SeqSpec == Init /\ [][SeqNext]_vars

\* dispatch: requests and acceptances of several trips, interleaved
DispatchStep(c) ==
    \/ RequestRide(c, MaxDispatchTrips)
    \/ AcceptRide(c, MaxDispatchTrips)

DispatchNext == \E c \in Calls : Return(c) \/ DispatchStep(c)

DispatchSpec == Init /\ [][DispatchNext]_vars

\* the wallet ledger alone: topups, withdrawals and transfers
TopupWallet(c) ==
    \/ /\ TxBudget < MaxTx
       /\ \E u \in Users, a \in Amounts : TopupWallet_Find(c, u, a)
    \/ TopupWallet_Save(c)

WithdrawFromWallet(c) ==
    \/ /\ TxBudget < MaxTx
       /\ \E u \in Users, a \in Amounts : WithdrawFromWallet_Find(c, u, a)
    \/ WithdrawFromWallet_Save(c)

TransferMoney(c) ==
    \/ /\ TxBudget + 1 < MaxTx
       /\ \E u \in Users, r \in Users, a \in Amounts : TransferMoney_FindSender(c, u, r, a)
    \/ TransferMoney_FindRecipient(c)
    \/ TransferMoney_Debit(c)
    \/ TransferMoney_Credit(c)
    \/ TransferMoney_CreditFails(c)

WalletStep(c) == TopupWallet(c) \/ WithdrawFromWallet(c) \/ TransferMoney(c)

WalletNext == \E c \in Calls : Return(c) \/ WalletStep(c)

WalletSpec == Init /\ [][WalletNext]_vars

\* the wallet ledger, one invocation at a time
SeqWalletNext == Return(1) \/ WalletStep(1)

SeqWalletSpec == Init /\ [][SeqWalletNext]_vars

\* getWallet where every account has its wallet (the creation step,
\* GetWallet_Create, is never enabled there)
GetWallet(c) ==
    \/ \E u \in Passengers : GetWallet_Find(c, u)
    \/ GetWallet_Save(c)

UpdateWalletStatus(c) ==
    \/ \E u \in Passengers, isActive \in BOOLEAN : UpdateWalletStatus_Find(c, u, isActive)
    \/ UpdateWalletStatus_Save(c)

OnPaymentCompleted(c) ==
    \/ \E payload \in events : OnPaymentCompleted_Find(c, payload)
    \/ OnPaymentCompleted_Save(c)

\* a requester has requested a ride
RequestedInit ==
    /\ trips = <<NewTrip("p1")>>
    /\ drivers = [d \in Drivers |->
                    [driverStatus |-> "approved", availability |-> "online",
                     totalTrips |-> 0, totalEarnings |-> 0,
                     averageRating |-> 0, totalRatings |-> 0]]
    /\ calls = [c \in Calls |-> IdleCall]
    /\ accepted = {}
    /\ settlements = <<>>
    /\ events = {}
    /\ now = 1
    /\ wallets = [u \in Users |-> NewWallet]

\* the spending limits: over the days of some months a requester pays for a
\* ride from the wallet, and tops the wallet up when it does not cover a ride;
\* one invocation at a time
LimitsNext ==
    \/ Return(1)
    \/ /\ wallets["p1"].balance < DailyLimit
       /\ TopupWallet_Find(1, "p1", Dollars(1000))
    \/ TopupWallet_Save(1)
    \/ ProcessRidePayment_FindTrip(1, 1, DailyLimit, "wallet")
    \/ ProcessRidePayment_FindWallet(1)
    \/ ProcessRidePayment_Debit(1)
    \/ GetWallet(1)
    \/ UpdateWalletStatus(1)
    \/ OnPaymentCompleted(1)
    \/ Tick(MaxLimitDate)

LimitsSpec == RequestedInit /\ [][LimitsNext]_vars

\* spending against the limits, interleaved: the requester tops the wallet up
\* when it does not cover the daily limit, and payments for the ride are
\* taken from the wallet, over two days
SpendNext ==
    \/ Tick(MaxSpendDate)
    \/ \E c \in Calls :
        \/ Return(c)
        \/ /\ wallets["p1"].balance < DailyLimit
           /\ TxBudget < MaxPayTx
           /\ TopupWallet_Find(c, "p1", Dollars(1000))
        \/ TopupWallet_Save(c)
        \/ /\ TxBudget + 1 < MaxPayTx
           /\ \E a \in Amounts : ProcessRidePayment_FindTrip(c, 1, a, "wallet")
        \/ ProcessRidePayment_FindWallet(c)
        \/ ProcessRidePayment_Debit(c)
        \/ OnPaymentCompleted(c)

SpendSpec == RequestedInit /\ [][SpendNext]_vars

\* the ride of a requester has been accepted, driven and completed by d1
CompletedInit ==
    /\ trips = << UpdateStatus(UpdateStatus(UpdateStatus(UpdateStatus(
                    [NewTrip("p1") EXCEPT !.driverId = "d1"],
                    "accepted"), "driver_arrived"), "in_progress"), "completed") >>
    /\ drivers = [d \in Drivers |->
                    [driverStatus |-> "approved", availability |-> "online",
                     totalTrips |-> IF d = "d1" THEN 1 ELSE 0,
                     totalEarnings |->
                        IF d = "d1" THEN NewTrip("p1").fareBreakdown.totalFare ELSE 0,
                     averageRating |-> 0, totalRatings |-> 0]]
    /\ calls = [c \in Calls |-> IdleCall]
    /\ accepted = {<<1, "d1">>}
    /\ settlements = <<[tripId |-> 1, amount |-> NewTrip("p1").fareBreakdown.totalFare]>>
    /\ events = {}
    /\ now = 1
    /\ wallets = [u \in Users |-> NewWallet]

ProcessRidePayment(c) ==
    \/ /\ TxBudget + 1 < MaxPayTx
       /\ \E t \in 1..2, a \in Fares, m \in PaymentMethods :
            ProcessRidePayment_FindTrip(c, t, a, m)
    \/ ProcessRidePayment_FindWallet(c)
    \/ ProcessRidePayment_Debit(c)
    \/ \E found \in {"none"} \cup Users : ProcessRidePayment_FindDriverWallet(c, found)
    \/ ProcessRidePayment_Credit(c)

\* the settlement of a completed trip: the requester tops the wallet up,
\* processRidePayment is invoked for the trip, an administrator sets the
\* status of wallets; one invocation at a time
PaymentNext ==
    \/ Return(1)
    \/ /\ TxBudget < MaxPayTx
       /\ \E a \in Amounts : TopupWallet_Find(1, "p1", a)
    \/ TopupWallet_Save(1)
    \/ ProcessRidePayment(1)
    \/ OnPaymentCompleted(1)
    \/ \E u \in Users, isActive \in BOOLEAN : UpdateWalletStatus_Find(1, u, isActive)
    \/ UpdateWalletStatus_Save(1)

PaymentSpec == CompletedInit /\ [][PaymentNext]_vars

\* the settlement of a completed trip and what follows it: the requester
\* tops the wallet up, processRidePayment is invoked for the trip, the event
\* it emits is handled; one invocation at a time
SettleNext ==
    \/ Return(1)
    \/ /\ TxBudget < MaxPayTx
       /\ \E a \in Amounts : TopupWallet_Find(1, "p1", a)
    \/ TopupWallet_Save(1)
    \/ ProcessRidePayment(1)
    \/ OnPaymentCompleted(1)

SettleSpec == CompletedInit /\ [][SettleNext]_vars

\* every event emitted is delivered, every handler runs to its end and every
\* response is sent
SettleFairness ==
    /\ WF_vars(SettleNext)
    /\ \A payload \in [tripId : 1..2, amount : Fares,
                        paymentMethod : PaymentMethods, success : BOOLEAN] :
            SF_vars(OnPaymentCompleted_Find(1, payload))
    /\ WF_vars(OnPaymentCompleted_Save(1))
    /\ WF_vars(Return(1))

LiveSettleSpec == SettleSpec /\ SettleFairness

\* a deployment whose wallets collection is still empty: the service does
\* not create wallets when it starts, and accounts exist before their wallet
LazyInit ==
    /\ trips = << UpdateStatus(UpdateStatus(UpdateStatus(UpdateStatus(
                    [NewTrip("p1") EXCEPT !.driverId = "d1"],
                    "accepted"), "driver_arrived"), "in_progress"), "completed") >>
    /\ drivers = [d \in Drivers |->
                    [driverStatus |-> "approved", availability |-> "online",
                     totalTrips |-> IF d = "d1" THEN 1 ELSE 0,
                     totalEarnings |->
                        IF d = "d1" THEN NewTrip("p1").fareBreakdown.totalFare ELSE 0,
                     averageRating |-> 0, totalRatings |-> 0]]
    /\ calls = [c \in Calls |-> IdleCall]
    /\ accepted = {<<1, "d1">>}
    /\ settlements = <<[tripId |-> 1, amount |-> NewTrip("p1").fareBreakdown.totalFare]>>
    /\ events = {}
    /\ now = 1
    /\ wallets = [u \in Users |-> NoWallet]

\* the wallet operations on such a deployment, one invocation at a time
LazyNext ==
    \/ Return(1)
    \/ \E u \in Users : GetWallet_Find(1, u)
    \/ GetWallet_Create(1)
    \/ GetWallet_Save(1)
    \/ WalletStep(1)
    \/ ProcessRidePayment(1)
    \/ OnPaymentCompleted(1)

LazySpec == LazyInit /\ [][LazyNext]_vars

\* requests alone, one invocation at a time: each driver is online or not
\* when the requests begin, and the requester may cancel and request again
RequestInit ==
    /\ trips = <<>>
    /\ drivers \in [Drivers -> [driverStatus : {"approved"},
                                availability : {"online", "offline"},
                                totalTrips : {0}, totalEarnings : {0},
                                averageRating : {0}, totalRatings : {0}]]
    /\ calls = [c \in Calls |-> IdleCall]
    /\ accepted = {}
    /\ settlements = <<>>
    /\ events = {}
    /\ now = 1
    /\ wallets = [u \in Users |-> NewWallet]

RequestNext ==
    \/ Return(1)
    \/ RequestRide(1, MaxDispatchTrips)
    \/ \E u \in Users, t \in TripArgs(MaxDispatchTrips) : CancelTrip_Find(1, u, t)
    \/ CancelTrip_Save(1)

RequestSpec == RequestInit /\ [][RequestNext]_vars

\* the ride of a requester is in progress, driven by d1
InProgressInit ==
    /\ trips = << UpdateStatus(UpdateStatus(UpdateStatus(
                    [NewTrip("p1") EXCEPT !.driverId = "d1"],
                    "accepted"), "driver_arrived"), "in_progress") >>
    /\ drivers = [d \in Drivers |->
                    [driverStatus |-> "approved",
                     availability |-> IF d = "d1" THEN "busy" ELSE "online",
                     totalTrips |-> 0, totalEarnings |-> 0,
                     averageRating |-> 0, totalRatings |-> 0]]
    /\ calls = [c \in Calls |-> IdleCall]
    /\ accepted = {<<1, "d1">>}
    /\ settlements = <<>>
    /\ events = {}
    /\ now = 1
    /\ wallets = [u \in Users |-> NewWallet]

\* the end of a ride: status updates of the trip in progress, interleaved
CompletionNext == \E c \in Calls : Return(c) \/ UpdateTripStatus(c, MaxTrips)

CompletionSpec == InProgressInit /\ [][CompletionNext]_vars

RateTrip(c) ==
    \/ \E u \in Users, t \in TripArgs(MaxTrips), r \in RatingArgs : RateTrip_Find(c, u, t, r)
    \/ RateTrip_FindDriver(c)
    \/ RateTrip_SaveDriver(c)
    \/ RateTrip_SaveTrip(c)

\* the end of a ride and its rating, any number of invocations interleaved
RateNext == \E c \in Calls : Return(c) \/ UpdateTripStatus(c, MaxTrips) \/ RateTrip(c)

RateSpec == InProgressInit /\ [][RateNext]_vars

\* the same, one invocation at a time
SeqRateNext == Return(1) \/ UpdateTripStatus(1, MaxTrips) \/ RateTrip(1)

SeqRateSpec == InProgressInit /\ [][SeqRateNext]_vars

\* the inputs of the fare: distances, durations, surge multipliers, discounts
\* and tips
FareDistances == {Km(1), Km(2) + 50, Km(3) + 37, Km(10)}
FareDurations == {Minutes(5), Minutes(20), Minutes(31) + 7}
SurgeMultipliers == {1, 2}
Discounts == {0, Dollars(2)}
Tips == {0, Dollars(1) + 5000}

\* a trip saved with these estimates and this surge multiplier, discount and
\* tip: pre('save') has calculated its fare
SavedTrip(u, distance, duration, surgeMultiplier, discount, tip) ==
    [NewTrip(u) EXCEPT
        !.estimatedDistance = distance,
        !.estimatedDuration = duration,
        !.fareBreakdown =
            Trip_CalculateFare(distance, duration,
                [surgeMultiplier |-> surgeMultiplier, discount |-> discount,
                 tip |-> tip])]

\* a crowded city: fourteen driver profiles, of which d3 awaits approval and
\* each of the others is online or not; one invocation at a time
CrowdedInit ==
    /\ trips = <<>>
    /\ \E online \in SUBSET {DriverOrder[i] : i \in 1..Len(DriverOrder)} :
        drivers = [d \in {DriverOrder[i] : i \in 1..Len(DriverOrder)} |->
                    [driverStatus |-> IF d = "d3" THEN "pending" ELSE "approved",
                     availability |-> IF d \in online THEN "online" ELSE "offline",
                     totalTrips |-> 0, totalEarnings |-> 0,
                     averageRating |-> 0, totalRatings |-> 0]]
    /\ calls = [c \in Calls |-> IdleCall]
    /\ accepted = {}
    /\ settlements = <<>>
    /\ events = {}
    /\ now = 1
    /\ wallets = [u \in Users |-> NewWallet]

CrowdedNext == Return(1) \/ RequestRide(1, MaxTrips)

CrowdedSpec == CrowdedInit /\ [][CrowdedNext]_vars

\* the fare alone: a trip has been saved, fares are estimated
FareInit ==
    /\ \E distance \in FareDistances, duration \in FareDurations,
          surgeMultiplier \in SurgeMultipliers, discount \in Discounts, tip \in Tips :
            trips = <<SavedTrip("p1", distance, duration, surgeMultiplier, discount, tip)>>
    /\ drivers = [d \in Drivers |->
                    [driverStatus |-> "approved", availability |-> "online",
                     totalTrips |-> 0, totalEarnings |-> 0,
                     averageRating |-> 0, totalRatings |-> 0]]
    /\ calls = [c \in Calls |-> IdleCall]
    /\ accepted = {}
    /\ settlements = <<>>
    /\ events = {}
    /\ now = 1
    /\ wallets = [u \in Users |-> NewWallet]

FareNext ==
    \/ Return(1)
    \/ \E located \in BOOLEAN, distance \in FareDistances, vehicleType \in VehicleTypes :
            GetFareEstimate(1, located, distance, vehicleType)

FareSpec == FareInit /\ [][FareNext]_vars

\* ===================================================================== claims
\* what a step of invocation c is
Starts(c, op) == calls[c].pc = "idle" /\ calls'[c].op = op

Rejected(c) == calls'[c].pc = "done" /\ calls'[c].result # "ok"

Finishes(c) == calls[c].pc # "done" /\ calls'[c].pc = "done"

StoreUnchanged == trips' = trips /\ drivers' = drivers

ActiveTripsOfPassenger(u) ==
    {t \in TripIds : trips[t].passengerId = u /\ trips[t].status \in ActiveStatuses}

ActiveTripsOfDriver(d) ==
    {t \in TripIds : trips[t].driverId = d /\ trips[t].status \in ActiveStatuses}

\* C1: of the acceptRide calls on one trip exactly one succeeds, and the trip
\* is bound to the driver whose call succeeded.
C1_ExactlyOneAcceptSucceeds ==
    /\ \A t \in TripIds : Cardinality({d \in Drivers : <<t, d>> \in accepted}) <= 1
    /\ \A t \in TripIds, d \in Drivers : <<t, d>> \in accepted => trips[t].driverId = d

\* sum of the amounts of the COMPLETED transactions of one type in a log
RECURSIVE CompletedSum(_, _)
CompletedSum(txs, type) ==
    IF txs = <<>> THEN 0
    ELSE CompletedSum(Tail(txs), type)
         + (IF Head(txs).type = type /\ Head(txs).status = "completed"
            THEN Head(txs).amount ELSE 0)

\* C2: the balance of every wallet is the sum of its COMPLETED credits minus
\* the sum of its COMPLETED debits.
C2_BalanceIsLedgerSum ==
    \A u \in Users :
        wallets[u].balance = CompletedSum(wallets[u].transactions, "credit")
                             - CompletedSum(wallets[u].transactions, "debit")

\* C3: debits of one wallet are applied one at a time, each against the
\* balance the ones before it left: the debits applied to a wallet never add
\* up to more than was credited to it.
C3_DebitsNeverOverspend ==
    \A u \in Users :
        CompletedSum(wallets[u].transactions, "debit")
            <= CompletedSum(wallets[u].transactions, "credit")

\* C4: a requester has at most one active trip, and so has a driver.
C4_AtMostOneActiveTrip ==
    /\ \A u \in Passengers : Cardinality(ActiveTripsOfPassenger(u)) <= 1
    /\ \A d \in Drivers : Cardinality(ActiveTripsOfDriver(d)) <= 1

\* the transition table as the claim C5 gives it
C5_Table(s) ==
    CASE s = "requested" -> {"accepted", "cancelled"}
      [] s = "accepted" -> {"driver_arrived", "cancelled"}
      [] s = "driver_arrived" -> {"in_progress", "cancelled"}
      [] s = "in_progress" -> {"completed"}
      [] OTHER -> {}

\* C5: the status of a trip changes only along a pair of the table,
\* whichever handler writes it.
C5_OnlyTableTransitionsHappen ==
    [][\A t \in TripIds :
        trips'[t].status # trips[t].status
        => trips'[t].status \in C5_Table(trips[t].status)]_vars

\* C6: once the stored status of a trip is COMPLETED or CANCELLED no step
\* changes it.
C6_TerminalStatusNeverChanges ==
    [][\A t \in TripIds :
        trips[t].status \in {"completed", "cancelled"}
        => trips'[t].status = trips[t].status]_vars

\* C7: a trip that has reached IN_PROGRESS (its start time is recorded) is
\* never CANCELLED.
C7_InProgressNeverCancelled ==
    \A t \in TripIds : trips[t].startedAt => trips[t].status # "cancelled"

\* C8: cancelTrip by the requester or the assigned driver on a trip that is
\* IN_PROGRESS, COMPLETED or CANCELLED is rejected as not cancellable and
\* changes nothing; on an ACCEPTED trip it goes on to cancel, and when it
\* returns the trip is CANCELLED and the assigned driver is ONLINE.
C8_CancelContract ==
    [][\A c \in Calls :
        /\ \A t \in TripIds :
            Starts(c, "cancelTrip") /\ calls'[c].trip = t
            /\ calls'[c].actor \in {trips[t].passengerId, trips[t].driverId}
            => /\ trips[t].status \in {"in_progress", "completed", "cancelled"}
                  => /\ Rejected(c) /\ calls'[c].result = "not_cancellable"
                     /\ StoreUnchanged
               /\ trips[t].status = "accepted" => calls'[c].pc = "ct_save"
        /\ Finishes(c) /\ calls'[c].op = "cancelTrip" /\ calls[c].pc # "idle"
           => /\ calls'[c].result = "ok"
              /\ trips'[calls[c].trip].status = "cancelled"
              /\ calls[c].rdDriver # NoDriver
                 => drivers'[calls[c].rdDriver].availability = "online"
      ]_vars

\* cancelTrip has returned for a trip that was accepted by a driver: the trip
\* is cancelled and the driver is online again
C8_Witness ==
    \E c \in Calls :
        /\ calls[c].pc = "done" /\ calls[c].op = "cancelTrip" /\ calls[c].result = "ok"
        /\ trips[calls[c].trip].acceptedAt /\ ~trips[calls[c].trip].driverArrivedAt
        /\ trips[calls[c].trip].status = "cancelled"
        /\ calls[c].rdDriver \in Drivers
        /\ drivers[calls[c].rdDriver].availability = "online"

\* C9: an updateTripStatus request for DRIVER_ARRIVED, IN_PROGRESS or
\* COMPLETED from anyone but the driver assigned to the trip fails and changes
\* nothing.
C9_OnlyAssignedDriverAdvances ==
    [][\A c \in Calls :
        /\ Starts(c, "updateTripStatus")
           /\ calls'[c].arg \in {"driver_arrived", "in_progress", "completed"}
           /\ ~(calls'[c].trip \in TripIds
                /\ trips[calls'[c].trip].driverId = calls'[c].actor)
           => Rejected(c) /\ StoreUnchanged
        /\ Finishes(c) /\ Rejected(c) /\ calls'[c].op = "updateTripStatus"
           => calls[c].pc = "idle"
      ]_vars

\* the requester asked for a status of the driver, on a trip whose next status
\* it is, and was refused
C9_Witness ==
    \E c \in Calls :
        /\ calls[c].pc = "done" /\ calls[c].op = "updateTripStatus"
        /\ calls[c].result = "driver_only"
        /\ calls[c].trip \in TripIds
        /\ trips[calls[c].trip].passengerId = calls[c].actor
        /\ calls[c].arg \in ValidTransitions(trips[calls[c].trip].status)

\* a call of updateTripStatus (with a status of its schema) or cancelTrip on a
\* trip by someone who is neither its requester nor its assigned driver
C10_ByStranger(c, t) ==
    /\ \/ Starts(c, "updateTripStatus") /\ calls'[c].arg # "requested"
       \/ Starts(c, "cancelTrip")
    /\ calls'[c].trip = t
    /\ calls'[c].actor \notin {trips[t].passengerId, trips[t].driverId}

DebitInvoked(c) ==
    /\ calls[c].pc = "pp_wallet"
    /\ calls'[c].pc # "pp_wallet"
    /\ calls[c].method = "wallet"

DebitedWallet(c) == wallets[calls[c].actor]

\* C11 as stated: a debit of more than the balance of the wallet fails with
\* the insufficient-balance error and changes nothing of the wallet.
C11_ShortDebitFailsInsufficient ==
    [][\A c \in Calls :
        DebitInvoked(c) /\ DebitedWallet(c).balance < calls[c].amount
            => /\ calls'[c].debit = "insufficient_balance"
               /\ wallets' = wallets]_vars

\* C11: a debit of more than the balance of the wallet fails and changes
\* nothing of the wallet; on an active wallet the error is the
\* insufficient-balance one, on an inactive wallet the not-active one.
C11_ShortDebitFails ==
    [][\A c \in Calls :
        DebitInvoked(c) /\ DebitedWallet(c).balance < calls[c].amount
            => /\ calls'[c].pc = "done"
               /\ calls'[c].debit =
                    (IF DebitedWallet(c).isActive THEN "insufficient_balance"
                     ELSE "wallet_inactive")
               /\ wallets' = wallets]_vars

C11_Witness ==
    \E c \in Calls :
        /\ calls[c].pc = "done"
        /\ calls[c].op = "processRidePayment"
        /\ calls[c].rdWallet.isActive
        /\ calls[c].rdWallet.balance < calls[c].amount
        /\ calls[c].debit = "insufficient_balance"

\* the debit would take the wallet over a limit: the counters are those the
\* lazy reset gives on the current date
OverLimit(w, amount) ==
    LET dailySpent == IF w.lastResetDate = Today THEN w.dailySpent ELSE 0
        monthlySpent == IF /\ w.lastResetDate.month = Today.month
                           /\ w.lastResetDate.year = Today.year
                        THEN w.monthlySpent ELSE 0
    IN \/ dailySpent + amount > DailyLimit
       \/ monthlySpent + amount > MonthlyLimit

SpendingUnchanged(u) ==
    /\ wallets'[u].dailySpent = wallets[u].dailySpent
    /\ wallets'[u].monthlySpent = wallets[u].monthlySpent
    /\ wallets'[u].balance = wallets[u].balance

\* C12 as stated: a debit that would take the wallet over its daily or its
\* monthly limit fails with the limit-exceeded error and leaves the spend
\* counters and the balance unchanged.
C12_OverLimitDebitFailsLimit ==
    [][\A c \in Calls :
        DebitInvoked(c) /\ OverLimit(DebitedWallet(c), calls[c].amount)
            => /\ calls'[c].debit = "limit_exceeded"
               /\ SpendingUnchanged(calls[c].actor)]_vars

\* C12: a debit that would take the wallet over its daily or its monthly
\* limit fails and leaves the spend counters and the balance unchanged; the
\* error is the limit-exceeded one when the wallet is active and its balance
\* covers the amount, else the not-active or the insufficient-balance one.
C12_OverLimitDebitFails ==
    [][\A c \in Calls :
        DebitInvoked(c) /\ OverLimit(DebitedWallet(c), calls[c].amount)
            => /\ calls'[c].pc = "done"
               /\ calls'[c].debit =
                    (IF ~DebitedWallet(c).isActive THEN "wallet_inactive"
                     ELSE IF DebitedWallet(c).balance < calls[c].amount
                     THEN "insufficient_balance"
                     ELSE "limit_exceeded")
               /\ SpendingUnchanged(calls[c].actor)]_vars

\* the debit is within the daily limit and over the monthly one
C12_Witness ==
    \E c \in Calls :
        /\ calls[c].pc = "done"
        /\ calls[c].op = "processRidePayment"
        /\ calls[c].debit = "limit_exceeded"
        /\ calls[c].rdWallet.lastResetDate # Today
        /\ calls[c].rdWallet.monthlySpent + calls[c].amount > MonthlyLimit

\* the spend counters a limit check on the current date is to evaluate with
SameDay(w) ==
    /\ w.lastResetDate.day = Today.day
    /\ w.lastResetDate.month = Today.month
    /\ w.lastResetDate.year = Today.year

SameMonth(w) ==
    /\ w.lastResetDate.month = Today.month
    /\ w.lastResetDate.year = Today.year

DailySpentToday(w) == IF SameDay(w) THEN w.dailySpent ELSE 0

MonthlySpentToday(w) == IF SameMonth(w) THEN w.monthlySpent ELSE 0

\* C13: a limit check on a date other than that of the last reset evaluates
\* with dailySpent = 0, and in another month with monthlySpent = 0 too; on
\* the date of the last reset it evaluates with the counters as they are.
\* getWallet stores the counters it evaluated with and the current date as
\* the date of the last reset; a debit that passes the check stores them with
\* its amount added.
C13_LazyReset ==
    [][\A c \in Calls :
        /\ Starts(c, "getWallet")
            => LET w == wallets[calls'[c].actor]
                   checked == calls'[c].newWallet
               IN /\ checked.dailySpent = DailySpentToday(w)
                  /\ checked.monthlySpent = MonthlySpentToday(w)
                  /\ checked.lastResetDate = Today
        /\ calls[c].pc = "gw_save" /\ calls'[c].pc = "done"
            => LET checked == calls[c].newWallet
                   w == wallets'[calls[c].actor]
               IN /\ w.dailySpent = checked.dailySpent
                  /\ w.monthlySpent = checked.monthlySpent
                  /\ w.lastResetDate = checked.lastResetDate
        /\ DebitInvoked(c) /\ calls'[c].pc = "pp_debit"
            => LET w == DebitedWallet(c)
                   a == calls[c].amount
                   checked == calls'[c].newWallet
               IN /\ DailySpentToday(w) + a <= DailyLimit
                  /\ MonthlySpentToday(w) + a <= MonthlyLimit
                  /\ checked.dailySpent = DailySpentToday(w) + a
                  /\ checked.monthlySpent = MonthlySpentToday(w) + a
                  /\ checked.lastResetDate = Today]_vars

\* getWallet on a later day of the month of the last reset: the daily counter
\* is reset, the monthly one is kept
C13_Witness ==
    \E c \in Calls :
        /\ calls[c].pc = "done"
        /\ calls[c].op = "getWallet"
        /\ calls[c].rdWallet.dailySpent > 0
        /\ calls[c].rdWallet.lastResetDate.day # calls[c].newWallet.lastResetDate.day
        /\ calls[c].rdWallet.lastResetDate.month = calls[c].newWallet.lastResetDate.month
        /\ wallets[calls[c].actor].dailySpent = 0
        /\ wallets[calls[c].actor].monthlySpent = calls[c].rdWallet.monthlySpent
        /\ wallets[calls[c].actor].lastResetDate = calls[c].newWallet.lastResetDate

\* the transactions of one type that a wallet holds for the settlement of
\* trip t
SettlementTxs(u, t, type) ==
    {i \in DOMAIN wallets[u].transactions :
        /\ wallets[u].transactions[i].type = type
        /\ wallets[u].transactions[i].referenceId = <<"trip", t>>}

\* C14: whatever the number of processRidePayment invocations for a trip, its
\* requester is debited for it at most once and at most one credit is made
\* for it.
C14_SettledAtMostOnce ==
    \A t \in TripIds :
        /\ Cardinality(SettlementTxs(trips[t].passengerId, t, "debit")) <= 1
        /\ Cardinality(UNION {{u} \X SettlementTxs(u, t, "credit") : u \in Users}) <= 1

\* wallet w holds a COMPLETED transaction of this type and amount for the
\* settlement of trip t
HasSettlementTx(w, t, type, amount) ==
    \E i \in DOMAIN w.transactions :
        /\ w.transactions[i].type = type
        /\ w.transactions[i].status = "completed"
        /\ w.transactions[i].amount = amount
        /\ w.transactions[i].referenceId = <<"trip", t>>

\* C15: a settlement of a trip paid from the wallet that reports success has
\* debited the requester by the fare and, in its last step, credited the
\* driver of the trip by the fare less 15%, both with the trip as reference.
C15_SettlementDebitsAndCredits ==
    [][\A c \in Calls :
        /\ calls[c].op = "processRidePayment"
        /\ Finishes(c)
        /\ calls'[c].result = "ok"
        /\ trips[calls[c].trip].driverId # NoDriver
        => LET t == calls[c].trip
               fare == calls[c].amount
               p == trips[t].passengerId
               d == trips[t].driverId
           IN /\ HasSettlementTx(wallets'[p], t, "debit", fare)
              /\ wallets'[p].balance = calls[c].rdWallet.balance - fare
              /\ HasSettlementTx(wallets'[d], t, "credit", DriverEarning(fare))
              /\ wallets'[d].balance = wallets[d].balance + DriverEarning(fare)]_vars

\* the last transaction of the log of wallet w
LastTx(w) == w.transactions[Len(w.transactions)]

\* C16: a transfer that succeeds has taken its amount from the balance of the
\* sender and added it to the balance of the recipient, and has appended a
\* COMPLETED debit to the log of the one and a COMPLETED credit to the log of
\* the other, both with one reference id; a transfer that a check rejects
\* changes no wallet.
C16_TransferMovesAmount ==
    [][\A c \in Calls :
        /\ calls[c].op = "transferMoney" /\ Finishes(c) /\ calls'[c].result = "ok"
            => LET a == calls[c].amount
                   sender == wallets'[calls[c].actor]
                   recipient == wallets'[calls[c].peer]
               IN /\ sender.balance = calls[c].rdWallet.balance - a
                  /\ recipient.balance = calls[c].rdPeer.balance + a
                  /\ sender.balance + recipient.balance
                        = calls[c].rdWallet.balance + calls[c].rdPeer.balance
                  /\ Len(sender.transactions) > 0
                  /\ LastTx(sender).type = "debit"
                  /\ LastTx(sender).status = "completed"
                  /\ LastTx(sender).amount = a
                  /\ LastTx(recipient).type = "credit"
                  /\ LastTx(recipient).status = "completed"
                  /\ LastTx(recipient).amount = a
                  /\ LastTx(recipient).referenceId = LastTx(sender).referenceId
        /\ Starts(c, "transferMoney") /\ Rejected(c) => wallets' = wallets
        /\ calls[c].pc = "tf_recipient" /\ Rejected(c) => wallets' = wallets]_vars

\* wallet w holds a transaction of this type with this reference id
HasTx(w, type, referenceId) ==
    \E i \in DOMAIN w.transactions :
        /\ w.transactions[i].type = type
        /\ w.transactions[i].referenceId = referenceId

\* C17: when the credit of a transfer fails after its debit was saved, the
\* transfer ends with an error, the balance of the sender stays reduced, the
\* recipient has received nothing and nothing is credited back to the sender.
C17_FailedCreditKeepsDebit ==
    [][\A c \in Calls :
        calls[c].pc = "tf_credit" /\ calls'[c].result = "credit_failed"
            => LET sender == wallets'[calls[c].actor]
                   recipient == wallets'[calls[c].peer]
                   transferId == calls[c].referenceId
               IN /\ Rejected(c)
                  /\ sender.balance < calls[c].rdWallet.balance
                  /\ HasTx(sender, "debit", transferId)
                  /\ ~HasTx(sender, "credit", transferId)
                  /\ recipient.balance = calls[c].rdPeer.balance
                  /\ ~HasTx(recipient, "credit", transferId)]_vars

C17_Witness ==
    \E c \in Calls :
        /\ calls[c].pc = "done"
        /\ calls[c].op = "transferMoney"
        /\ calls[c].result = "credit_failed"
        /\ wallets[calls[c].actor].balance < calls[c].rdWallet.balance
        /\ wallets[calls[c].peer].balance = calls[c].rdPeer.balance

\* C18: a requestRide that fails for want of a candidate driver leaves its
\* requester without a REQUESTED trip.
C18_NoDriversNoTrip ==
    [][\A c \in Calls :
        /\ calls[c].op = "requestRide"
        /\ Finishes(c)
        /\ calls'[c].result = "no_drivers"
        => ~\E t \in DOMAIN trips' :
                /\ trips'[t].passengerId = calls[c].actor
                /\ trips'[t].status = "requested"]_vars

\* C19: rateTrip fails on a trip that is not COMPLETED and for an actor who
\* has rated the trip; a rating that is set is never changed.
C19_RatingsSetOnce ==
    [][/\ \A c \in Calls :
            /\ Starts(c, "rateTrip")
            /\ calls'[c].trip \in TripIds
            /\ RateTripSchema(calls'[c].rating)
            /\ LET trip == trips[calls'[c].trip]
                   u == calls'[c].actor
               IN \/ trip.status # "completed"
                  \/ IsPassenger(trip, u) /\ trip.passengerRating # 0
                  \/ IsDriver(trip, u) /\ trip.driverRating # 0
            => Rejected(c) /\ StoreUnchanged
       /\ \A t \in TripIds :
            /\ trips[t].passengerRating # 0
                => trips'[t].passengerRating = trips[t].passengerRating
            /\ trips[t].driverRating # 0
                => trips'[t].driverRating = trips[t].driverRating]_vars

\* C20: a withdrawal that succeeds has appended to the log of the wallet a
\* debit of the category withdrawal whose status is PROCESSING.
C20_WithdrawalIsProcessing ==
    [][\A c \in Calls :
        calls[c].op = "withdrawFromWallet" /\ Finishes(c) /\ calls'[c].result = "ok"
            => LET w == wallets'[calls[c].actor]
               IN /\ Len(w.transactions) = Len(wallets[calls[c].actor].transactions) + 1
                  /\ LastTx(w).type = "debit"
                  /\ LastTx(w).category = "withdrawal"
                  /\ LastTx(w).amount = calls[c].amount
                  /\ LastTx(w).status = "processing"]_vars

\* C21: credit on an inactive wallet fails and changes no wallet; on an
\* active wallet it appends one COMPLETED credit to the log, adds the amount
\* to the balance and leaves the spend counters as they are.
C21_CreditAddsAmount ==
    [][\A c \in Calls :
        /\ calls[c].pc = "pp_driver" /\ calls'[c].peer # "none"
           /\ ~wallets[calls'[c].peer].isActive
            => Rejected(c) /\ wallets' = wallets
        /\ calls[c].pc = "pp_credit" /\ Finishes(c)
            => LET u == calls[c].peer
                   amount == DriverEarning(calls[c].amount)
               IN /\ Len(wallets'[u].transactions) = Len(wallets[u].transactions) + 1
                  /\ LastTx(wallets'[u]).type = "credit"
                  /\ LastTx(wallets'[u]).status = "completed"
                  /\ LastTx(wallets'[u]).amount = amount
                  /\ wallets'[u].balance = wallets[u].balance + amount
                  /\ wallets'[u].dailySpent = wallets[u].dailySpent
                  /\ wallets'[u].monthlySpent = wallets[u].monthlySpent]_vars

\* C22: a debit that passes the checks appends one COMPLETED debit to the
\* log, takes the amount from the balance and adds it to both spend counters.
C22_DebitTakesAmount ==
    [][\A c \in Calls :
        calls[c].pc = "tf_debit" /\ calls'[c].pc = "tf_credit"
            => LET u == calls[c].actor
                   a == calls[c].amount
               IN /\ Len(wallets'[u].transactions) = Len(wallets[u].transactions) + 1
                  /\ LastTx(wallets'[u]).type = "debit"
                  /\ LastTx(wallets'[u]).status = "completed"
                  /\ LastTx(wallets'[u]).amount = a
                  /\ wallets'[u].balance = wallets[u].balance - a
                  /\ wallets'[u].dailySpent = DailySpentToday(wallets[u]) + a
                  /\ wallets'[u].monthlySpent = MonthlySpentToday(wallets[u]) + a]_vars

\* C23: the balance of every wallet is non-negative.
C23_BalanceNonNegative == \A u \in Users : wallets[u].balance >= 0

\* debits taken from stale copies of a wallet add up to more than was credited
\* to it
C23_Witness ==
    \E u \in Users :
        /\ CompletedSum(wallets[u].transactions, "debit")
                > CompletedSum(wallets[u].transactions, "credit")
        /\ wallets[u].balance >= 0

\* the fare f is the one of the formula for this distance, duration and rate
\* per kilometre: the total is a whole number of cents, the nearest to the
\* exact total, half a cent going up
IsFareOf(f, distance, duration, perKmRate) ==
    LET subtotal == (Dollars(2) + 5000 + (distance * perKmRate) \div 100
                        + duration * 25) * f.surgeMultiplier
        exact == (subtotal - f.discount + f.tip) * 100 + f.tax
    IN /\ f.tax * 100 = (subtotal - f.discount) * 100 * 8
       /\ f.totalFare % 100 = 0
       /\ f.totalFare * 100 - exact > -5000
       /\ f.totalFare * 100 - exact <= 5000

\* C24: the fare of every trip and every fare estimated is that of the
\* formula; for 10 km and 20 min at 1.20 per km with no surge, discount or
\* tip the tax is 1.56 and the total 21.06.
C24_FareFormula ==
    /\ \A t \in TripIds :
        /\ IsFareOf(trips[t].fareBreakdown, trips[t].estimatedDistance,
                    trips[t].estimatedDuration, 12000)
        /\ /\ trips[t].estimatedDistance = 1000
           /\ trips[t].estimatedDuration = 2000
           /\ trips[t].fareBreakdown.surgeMultiplier = 1
           /\ trips[t].fareBreakdown.discount = 0
           /\ trips[t].fareBreakdown.tip = 0
           => /\ trips[t].fareBreakdown.tax = 1560000
              /\ trips[t].fareBreakdown.totalFare = 210600
    /\ \A c \in Calls :
        calls[c].op = "getFareEstimate" /\ calls[c].result = "ok"
            => /\ calls[c].fare.surgeMultiplier = 1
               /\ calls[c].fare.discount = 0
               /\ calls[c].fare.tip = 0
               /\ IsFareOf(calls[c].fare, calls[c].distance, calls[c].duration,
                           IF calls[c].arg = "luxury" THEN 20000 ELSE 12000)

\* the trip of the example, and one whose exact total is not a whole number
\* of cents
C24_Witness ==
    /\ trips[1].estimatedDistance = 1000
    /\ trips[1].estimatedDuration = 2000
    /\ trips[1].fareBreakdown.surgeMultiplier = 1
    /\ trips[1].fareBreakdown.discount = 0
    /\ trips[1].fareBreakdown.tip = 0
    /\ trips[1].fareBreakdown.totalFare = 210600
    /\ \E c \in Calls :
        /\ calls[c].op = "getFareEstimate"
        /\ calls[c].result = "ok"
        /\ calls[c].fare.totalFare * 100 > calls[c].fare.tax
                + (calls[c].fare.baseFare + calls[c].fare.distanceFare
                    + calls[c].fare.timeFare) * 100

\* C25: the total of a fare estimate is not above the total estimated, for
\* the same vehicle type, for a longer distance (with the duration estimated
\* from it), nor above the total calculated for the same distance and a longer
\* duration.
C25_EstimateIsMonotone ==
    \A c \in Calls :
        calls[c].op = "getFareEstimate" /\ calls[c].result = "ok"
            => /\ \A distance \in FareDistances :
                    distance >= calls[c].distance
                        => CalculateFare(distance, EstimatedDuration(distance),
                                         calls[c].arg).totalFare
                                >= calls[c].fare.totalFare
               /\ \A duration \in FareDurations :
                    duration >= calls[c].duration
                        => CalculateFare(calls[c].distance, duration,
                                         calls[c].arg).totalFare
                                >= calls[c].fare.totalFare

\* an estimate for which a longer distance and a longer duration exist, and
\* cost more
C25_Witness ==
    \E c \in Calls :
        /\ calls[c].op = "getFareEstimate"
        /\ calls[c].result = "ok"
        /\ \E distance \in FareDistances :
            /\ distance > calls[c].distance
            /\ CalculateFare(distance, EstimatedDuration(distance),
                             calls[c].arg).totalFare > calls[c].fare.totalFare
        /\ \E duration \in FareDurations :
            /\ duration > calls[c].duration
            /\ CalculateFare(calls[c].distance, duration,
                             calls[c].arg).totalFare > calls[c].fare.totalFare

\* C26: every trip that is ACCEPTED, DRIVER_ARRIVED, IN_PROGRESS or COMPLETED
\* has a driver: no handler moves a trip to ACCEPTED without binding one.
C26_AcceptedTripHasDriver ==
    \A t \in TripIds :
        trips[t].status \in {"accepted", "driver_arrived", "in_progress", "completed"}
            => trips[t].driverId # NoDriver

\* the handler whose step cancels a trip has returned
CancelFinishes(c) ==
    /\ Finishes(c)
    /\ calls'[c].result = "ok"
    /\ \/ calls'[c].op = "cancelTrip"
       \/ calls'[c].op = "updateTripStatus" /\ calls'[c].arg = "cancelled"

\* C27: a step that makes a trip CANCELLED records the time, the actor and the
\* reason of the cancellation, and when the handler that cancelled returns the
\* driver who was assigned to the trip is ONLINE.
C27_CancellationRecorded ==
    [][/\ \A t \in TripIds :
            trips[t].status # "cancelled" /\ trips'[t].status = "cancelled"
            => /\ trips'[t].cancelledAt
               /\ trips'[t].cancelledBy \in {"passenger", "driver"}
               /\ trips'[t].cancellationReason
       /\ \A c \in Calls :
            CancelFinishes(c) /\ calls'[c].rdDriver # NoDriver
            => drivers'[calls'[c].rdDriver].availability = "online"
      ]_vars

\* C28: no trip is stored as ACCEPTED and bound to a driver while the
\* availability of that driver is still ONLINE.
C28_AcceptIsAtomic ==
    \A t \in TripIds :
        trips[t].status = "accepted" /\ trips[t].driverId # NoDriver
            => drivers[trips[t].driverId].availability # "online"

\* invocation c is an updateTripStatus(COMPLETED) that passed its checks
Completing(c) ==
    calls[c].op = "updateTripStatus" /\ calls[c].arg = "completed"

\* C29: an updateTripStatus that completes a trip IN_PROGRESS records the
\* completion time and sets the payment status of the trip to processing; it
\* returns only after it made the driver of the trip ONLINE, added one to the
\* driver's totalTrips and the total fare of the trip to the driver's
\* totalEarnings, and asked for the payment of the trip.
C29_CompletionEffects ==
    [][\A c \in Calls :
        LET t == calls[c].trip
            d == trips[t].driverId
        IN /\ Completing(c) /\ calls[c].pc = "us_save"
              => /\ trips'[t].status = "completed"
                 /\ trips'[t].completedAt
                 /\ trips'[t].paymentStatus = "processing"
                 /\ calls'[c].pc = "us_driver"
           /\ Completing(c) /\ Finishes(c) /\ calls'[c].result = "ok"
              => /\ calls[c].pc = "us_dsave"
                 /\ trips[t].status = "completed"
                 /\ drivers'[d].availability = "online"
                 /\ drivers'[d].totalTrips = drivers[d].totalTrips + 1
                 /\ drivers'[d].totalEarnings =
                        drivers[d].totalEarnings + trips[t].fareBreakdown.totalFare
                 /\ settlements' =
                        Append(settlements,
                               [tripId |-> t,
                                amount |-> trips[t].fareBreakdown.totalFare])
      ]_vars

\* the driver has completed the trip: the statistics count it and its payment
\* has been asked for
C29_Witness ==
    \E c \in Calls :
        /\ calls[c].pc = "done" /\ Completing(c) /\ calls[c].result = "ok"
        /\ trips[calls[c].trip].status = "completed"
        /\ trips[calls[c].trip].paymentStatus = "processing"
        /\ drivers[calls[c].actor].availability = "online"
        /\ drivers[calls[c].actor].totalTrips = 1
        /\ drivers[calls[c].actor].totalEarnings > 0
        /\ Len(settlements) = 1

\* the requests for the payment of trip t
SettlementsOf(t) == SelectSeq(settlements, LAMBDA m : m.tripId = t)

\* C30: however the updateTripStatus(COMPLETED) calls of the assigned driver
\* on one trip interleave, the completion of the trip counts once: the
\* driver's totalTrips is the number of trips the driver has completed, and
\* the payment of a trip is asked for at most once.
C30_CompletionCountsOnce ==
    /\ \A t \in TripIds : Len(SettlementsOf(t)) <= 1
    /\ \A d \in Drivers :
        drivers[d].totalTrips
            <= Cardinality({t \in TripIds : /\ trips[t].driverId = d
                                            /\ trips[t].completedAt})

\* no acceptRide invocation is between its first read and its response
AcceptsFinished ==
    \A c \in Calls : calls[c].op = "acceptRide" => calls[c].pc = "done"

\* C31: when the acceptRide calls have finished, every driver who is BUSY is
\* the driver bound to a trip: a driver who lost the race for a trip is ONLINE.
C31_NoBusyDriverWithoutTrip ==
    AcceptsFinished
        => \A d \in Drivers :
                drivers[d].availability = "busy"
                    => \E t \in TripIds : trips[t].driverId = d

\* C32: every driver id the 'ride.requested' event carries belongs to a
\* driver who, when the drivers were searched, was approved, online, of the
\* requested vehicle type and within 5 km of the pickup point; the event
\* carries at most 10 ids.
C32_FanOutIsEligible ==
    [][\A c \in Calls :
        calls[c].pc = "rr_find" /\ calls'[c].pc = "done" /\ calls'[c].result = "ok"
        => /\ calls'[c].nearbyDrivers # {}
           /\ \A d \in calls'[c].nearbyDrivers :
                /\ drivers[d].driverStatus = "approved"
                /\ drivers[d].availability = "online"
                /\ VehicleOf(d) = calls[c].arg
                /\ DistanceOf(d) <= 5000
           /\ Cardinality(calls'[c].nearbyDrivers) <= 10
      ]_vars

\* an event that carries 10 ids, while an eleventh driver within the radius
\* and one beyond it were online, approved and of the requested vehicle type
C32_Witness ==
    \E c \in Calls :
        /\ calls[c].op = "requestRide" /\ calls[c].pc = "done" /\ calls[c].result = "ok"
        /\ Cardinality(calls[c].nearbyDrivers) = 10
        /\ \E d, e \in DOMAIN drivers \ calls[c].nearbyDrivers :
            /\ drivers[d].availability = "online" /\ drivers[e].availability = "online"
            /\ drivers[d].driverStatus = "approved" /\ drivers[e].driverStatus = "approved"
            /\ VehicleOf(d) = calls[c].arg /\ VehicleOf(e) = calls[c].arg
            /\ DistanceOf(d) <= 5000
            /\ DistanceOf(e) > 5000

\* C33: acceptRide fails, and changes neither a trip nor a driver, when the
\* driver it looks up has a trip ACCEPTED, DRIVER_ARRIVED or IN_PROGRESS
\* (driver already active), when the trip it looks up does not exist (trip
\* not found) and when the status of that trip is not REQUESTED (trip no
\* longer available).
C33_AcceptRideFailures ==
    [][\A c \in Calls :
        calls[c].op = "acceptRide" /\ calls'[c] # calls[c]
        => /\ calls[c].pc = "ar_active"
              /\ (\E t \in TripIds :
                    /\ trips[t].driverId = calls[c].actor
                    /\ trips[t].status \in {"accepted", "driver_arrived", "in_progress"})
              => /\ Rejected(c) /\ calls'[c].result = "already_active"
                 /\ StoreUnchanged
           /\ calls[c].pc = "ar_trip" /\ calls[c].trip \notin TripIds
              => /\ Rejected(c) /\ calls'[c].result = "trip_not_found"
                 /\ StoreUnchanged
           /\ calls[c].pc = "ar_trip" /\ calls[c].trip \in TripIds
              /\ trips[calls[c].trip].status # "requested"
              => /\ Rejected(c) /\ calls'[c].result = "trip_unavailable"
                 /\ StoreUnchanged
           /\ Finishes(c) /\ calls'[c].result = "ok" => calls[c].pc = "ar_driver"
      ]_vars

\* a driver who is online asked for a trip that another driver has accepted,
\* and was told that the trip is no longer available
C33_Witness ==
    \E c \in Calls :
        /\ calls[c].op = "acceptRide" /\ calls[c].pc = "done"
        /\ calls[c].result = "trip_unavailable"
        /\ trips[calls[c].trip].status = "accepted"
        /\ trips[calls[c].trip].driverId \notin {calls[c].actor, NoDriver}
        /\ drivers[calls[c].actor].availability = "online"

\* C34: the fare breakdown requestRide stores on a trip is the breakdown
\* estimateFare returns for the same distance and the vehicle type of the
\* request.
C34_StoredFareIsEstimate ==
    [][\A c \in Calls :
        calls[c].op = "requestRide" /\ calls[c].pc = "rr_save"
        /\ calls'[c].pc = "rr_find"
        => trips'[calls'[c].trip].fareBreakdown =
                CalculateFare(trips'[calls'[c].trip].estimatedDistance,
                              EstimatedDuration(trips'[calls'[c].trip].estimatedDistance),
                              calls[c].arg)
      ]_vars

C36_SettlementAllOrNothing ==
    [][\A c \in Calls :
        Finishes(c) /\ calls'[c].op = "processRidePayment"
        /\ calls'[c].rdDriver # NoDriver
        => LET ref == <<"trip", calls'[c].trip>>
               debited == HasTx(wallets'[calls'[c].actor], "debit", ref)
               credited == HasTx(wallets'[calls'[c].rdDriver], "credit", ref)
           IN /\ debited => credited
              /\ calls'[c].result = "ok" => debited /\ credited
      ]_vars

\* the values a payment status may have
C37_PaymentStatuses == {"pending", "processing", "completed", "failed", "refunded"}

\* C37: the payment status of a trip is always one of pending, processing,
\* completed, failed, refunded; and once processRidePayment has succeeded for
\* a trip and emitted its 'payment.completed' event, the payment status of the
\* trip eventually is completed.
C37_PaymentStatusCompletes ==
    /\ [](\A t \in TripIds : trips[t].paymentStatus \in C37_PaymentStatuses)
    /\ \A t \in 1..MaxTrips :
        (\E payload \in events : payload.tripId = t /\ payload.success)
            ~> (t \in TripIds /\ trips[t].paymentStatus = "completed")

\* C38: the spending counters of a wallet never exceed its limits, however
\* the operations that debit it interleave.
C38_SpentWithinLimits ==
    \A u \in Users :
        /\ wallets[u].dailySpent <= DailyLimit
        /\ wallets[u].monthlySpent <= MonthlyLimit

\* two debits of one day have been applied to a wallet whose daily counter
\* could not take a third, and a debit was refused for the limit
C38_Witness ==
    \E u \in Users, c \in Calls :
        /\ calls[c].pc = "done" /\ calls[c].result = "limit_exceeded"
        /\ calls[c].actor = u
        /\ wallets[u].dailySpent + calls[c].amount > DailyLimit
        /\ wallets[u].dailySpent > 0
        /\ Len(wallets[u].transactions) >= 3

\* sum of the amounts of the withdrawals in a log that were accepted and are
\* neither completed nor failed nor cancelled
RECURSIVE OpenWithdrawals(_)
OpenWithdrawals(txs) ==
    IF txs = <<>> THEN 0
    ELSE OpenWithdrawals(Tail(txs))
         + (IF /\ Head(txs).category = "withdrawal"
               /\ Head(txs).status \notin {"completed", "failed", "cancelled"}
            THEN Head(txs).amount ELSE 0)

\* C39: the withdrawals of a wallet that were accepted and are not yet
\* completed, failed or cancelled never add up to more than its balance.
C39_WithdrawalsAreCovered ==
    \A u \in Users :
        OpenWithdrawals(wallets[u].transactions) <= wallets[u].balance

\* the operations that are to create the wallet of an account on first access
LazyOperations ==
    {"getWallet", "topupWallet", "withdrawFromWallet", "transferMoney",
     "processRidePayment"}

\* C40: getWallet, topupWallet, withdrawFromWallet, the transfer and the
\* settlement never fail with 'wallet not found' (the wallet of an account
\* that has none is created on first access: after a getWallet that
\* succeeded the account has a wallet), and no step deletes a wallet.
C40_WalletCreatedOnFirstAccess ==
    [][/\ \A c \in Calls :
            (/\ calls'[c] # calls[c]
             /\ calls'[c].pc = "done"
             /\ calls'[c].op \in LazyOperations)
            => /\ calls'[c].result # "wallet_not_found"
               /\ (calls'[c].op = "getWallet" /\ calls'[c].result = "ok")
                    => wallets'[calls'[c].actor].exists
       /\ \A u \in Users : wallets[u].exists => wallets'[u].exists]_vars

====
